---------------------------- MODULE Spec2Model ----------------------------
(***************************************************************************)
(* Model of the ingestion engine of the timesheet application: the field   *)
(* coercers, the header matcher and the row hash of utils/excelParser.ts,  *)
(* the import handler of pages/Import.tsx and the shared record store of   *)
(* contexts/DataContext.tsx.                                               *)
(*                                                                         *)
(* A raw cell value (the any-typed argument of a coercer) is a record with *)
(* a type tag t: [t |-> "null"], [t |-> "undefined"], [t |-> "string", v],   *)
(* [t |-> "number", v].  A number is [k |-> "fin", m, e] (the decimal      *)
(* m / 10^e in lowest form), [k |-> "inf", neg] or [k |-> "nan"].          *)
(***************************************************************************)
EXTENDS Integers, Sequences, FiniteSets, TLC

VARIABLES
    cell,           \* coercers: the raw value handed to a coercer
    op,             \* coercers: the coercer that ran last ("none" before any)
    res,            \* coercers: what it returned (or the exception it threw)
    fed,            \* coercers: cell is the date string parseDate returned
    lenientDay,     \* engine: Date.parse accepts day 29..31 in any month
    hasEncoder,     \* engine: TextEncoder and btoa exist
    recA,           \* row hash: a work item
    recB,           \* row hash: a second work item
    hashA,          \* row hash: generateRowHash(recA), NoHash before the call
    hashB,          \* row hash: generateRowHash(recB), NoHash before the call
    nchg,           \* row hash: number of field changes made to recB
    headers,        \* header matcher: the header row handed to detectColumns
    mapping,        \* header matcher: the mapping returned, NoMapping before
    workItems,      \* DataProvider: the shared work items
    workCodes,      \* DataProvider: the shared work codes
    isProcessing,   \* Import page state
    importResult,   \* Import page state (Null or the ImportResult)
    pageWorkItems,  \* Import page state: workItems of the page
    pageWorkCodes,  \* Import page state: workCodes of the page
    columnMapping,  \* Import page state
    errors,         \* Import page state: the messages shown
    appError,       \* Import page state (Null or the AppError)
    uploads,        \* number of handleFileUpload calls made so far
    inFlight,       \* number of parseExcelFile promises still pending
    settled,        \* the settled promise whose continuation is due next
    run,            \* locals of the continuation of handleFileUpload that
                    \* ran last: itemsWithHash, uniqueItems, duplicates
    filters,        \* Reports page state: project, contractor, fromDate, toDate
    report,         \* the memo of Dashboard or Reports computed last
    workbook        \* the content of the file handed to parseExcelFile

coerceVars == <<cell, op, res, fed>>
envVars == <<lenientDay, hasEncoder>>
hashVars == <<recA, recB, hashA, hashB, nchg>>
colVars == <<headers, mapping>>
storeVars == <<workItems, workCodes>>
pageVars ==
    <<isProcessing, importResult, pageWorkItems, pageWorkCodes, columnMapping,
      errors, appError>>
runVars == <<uploads, inFlight, settled, run>>
importVars == <<storeVars, pageVars, runVars>>

reportVars == <<filters, report>>

vars ==
    <<coerceVars, envVars, hashVars, colVars, importVars, reportVars, workbook>>

---------------------------------------------------------------------------
(* Strings: a JavaScript string is the sequence of its UTF-16 code units   *)
(* (every character of this model is in the basic plane, so a code unit is *)
(* a code point).  Txt turns an ASCII literal into such a sequence.        *)

\* code units 32..95 and 97..126
AsciiLow ==
    " !\"#$%&'()*+,-./0123456789:;<=>?@ABCDEFGHIJKLMNOPQRSTUVWXYZ[\\]^_"

AsciiHigh == "abcdefghijklmnopqrstuvwxyz{|}~"

CodeOf(c) ==
    IF \E i \in 1..Len(AsciiLow) : SubSeq(AsciiLow, i, i) = c
    THEN 31 + CHOOSE i \in 1..Len(AsciiLow) : SubSeq(AsciiLow, i, i) = c
    ELSE 96 + CHOOSE i \in 1..Len(AsciiHigh) : SubSeq(AsciiHigh, i, i) = c

Txt(s) == [i \in 1..Len(s) |-> CodeOf(SubSeq(s, i, i))]

IsDigit(c) == c \in 48..57

DigitVal(c) == c - 48

AllDigits(s) == \A i \in 1..Len(s) : IsDigit(s[i])

\* WhiteSpace and LineTerminator code points that String.prototype.trim and
\* parseFloat strip
IsWhiteSpace(c) ==
    c \in (9..13) \cup {32, 160, 5760, 8232, 8233, 8239, 8287, 12288, 65279}
             \cup (8192..8202)

RECURSIVE TrimStart(_)
TrimStart(s) ==
    IF Len(s) > 0 /\ IsWhiteSpace(s[1]) THEN TrimStart(Tail(s)) ELSE s

RECURSIVE TrimEnd(_)
TrimEnd(s) ==
    IF Len(s) > 0 /\ IsWhiteSpace(s[Len(s)])
    THEN TrimEnd(SubSeq(s, 1, Len(s) - 1))
    ELSE s

\* String.prototype.trim
Trim(s) == TrimEnd(TrimStart(s))

\* String.prototype.toLowerCase (the scripts of the column table have no
\* case beyond ASCII)
ToLowerCase(s) ==
    [i \in 1..Len(s) |-> IF s[i] \in 65..90 THEN s[i] + 32 ELSE s[i]]

\* String.prototype.includes
Includes(h, n) ==
    \E i \in 0..(Len(h) - Len(n)) : SubSeq(h, i + 1, i + Len(n)) = n

StartsWith(s, p) == Len(s) >= Len(p) /\ SubSeq(s, 1, Len(p)) = p

\* the length of the longest prefix of s made of decimal digits
RECURSIVE DigitRun(_)
DigitRun(s) ==
    IF Len(s) > 0 /\ IsDigit(s[1]) THEN 1 + DigitRun(Tail(s)) ELSE 0

\* the natural number a string of decimal digits denotes ("" is 0)
RECURSIVE DigitsVal(_)
DigitsVal(s) ==
    IF Len(s) = 0 THEN 0
    ELSE 10 * DigitsVal(SubSeq(s, 1, Len(s) - 1)) + DigitVal(s[Len(s)])

RECURSIVE Pow10(_)
Pow10(n) == IF n = 0 THEN 1 ELSE 10 * Pow10(n - 1)

RECURSIVE NatToStr(_)
NatToStr(n) ==
    IF n < 10 THEN <<48 + n>>
    ELSE NatToStr(n \div 10) \o <<48 + (n % 10)>>

\* String.prototype.padStart(w, "0")
RECURSIVE PadStart(_, _)
PadStart(s, w) == IF Len(s) >= w THEN s ELSE PadStart(<<48>> \o s, w)

---------------------------------------------------------------------------
(* Numbers                                                                 *)

NaN == [k |-> "nan"]
Infinity(neg) == [k |-> "inf", neg |-> neg]

\* m / 10^e in lowest form
RECURSIVE Fin(_, _)
Fin(m, e) ==
    IF e > 0 /\ m % 10 = 0 THEN Fin(m \div 10, e - 1)
    ELSE [k |-> "fin", m |-> m, e |-> e]

Zero == Fin(0, 0)

IsNaN(n) == n.k = "nan"

Abs(i) == IF i < 0 THEN -i ELSE i

\* Number::toString for the magnitudes of this model (no exponent form)
NumberToString(n) ==
    IF n.k = "nan" THEN Txt("NaN")
    ELSE IF n.k = "inf" THEN (IF n.neg THEN Txt("-Infinity") ELSE Txt("Infinity"))
    ELSE LET a  == Abs(n.m)
             ip == a \div Pow10(n.e)
             fp == a % Pow10(n.e)
         IN  (IF n.m < 0 THEN Txt("-") ELSE <<>>)
             \o NatToStr(ip)
             \o (IF n.e = 0 THEN <<>> ELSE Txt(".") \o PadStart(NatToStr(fp), n.e))

\* The scan of the global parseFloat: leading white space, an optional sign,
\* then the longest StrDecimalLiteral.  [val, len]: the value and the number
\* of characters of s it consumed (len = 0 and NaN when there is no literal).
\* The ExponentPart of the literal needs an e or E, which the cell alphabet
\* of this model does not contain.
ParseFloatScan(s) ==
    LET t    == TrimStart(s)
        ws   == Len(s) - Len(t)
        sg   == IF Len(t) > 0 /\ t[1] \in {43, 45} THEN 1 ELSE 0
        neg  == sg = 1 /\ t[1] = 45
        r    == SubSeq(t, sg + 1, Len(t))
        ni   == DigitRun(r)
        dot  == Len(r) > ni /\ r[ni + 1] = 46
        nf   == IF dot THEN DigitRun(SubSeq(r, ni + 2, Len(r))) ELSE 0
        mant == DigitsVal(SubSeq(r, 1, ni)) * Pow10(nf)
                    + DigitsVal(SubSeq(r, ni + 2, ni + 1 + nf))
    IN  IF StartsWith(r, Txt("Infinity"))
        THEN [val |-> Infinity(neg), len |-> ws + sg + 8]
        ELSE IF ni + nf = 0
        THEN [val |-> NaN, len |-> 0]
        ELSE [val |-> Fin(IF neg THEN -mant ELSE mant, nf),
              len |-> ws + sg + ni + (IF dot THEN 1 + nf ELSE 0)]

parseFloat(s) == ParseFloatScan(s).val

---------------------------------------------------------------------------
(* Raw cell values                                                         *)

Null == [t |-> "null"]
Undefined == [t |-> "undefined"]
Str(s) == [t |-> "string", v |-> s]
Num(n) == [t |-> "number", v |-> n]
Threw(e) == [t |-> "throw", v |-> e]

\* ToBoolean
Truthy(x) ==
    CASE x.t = "string" -> x.v # <<>>
      [] x.t = "number" -> ~(x.v.k = "nan" \/ (x.v.k = "fin" /\ x.v.m = 0))
      [] OTHER -> FALSE

\* String(value)
JsString(x) ==
    CASE x.t = "string" -> x.v
      [] x.t = "number" -> NumberToString(x.v)
      [] x.t = "null" -> Txt("null")
      [] OTHER -> Txt("undefined")

---------------------------------------------------------------------------
(* Dates.  A Date object is [valid |-> FALSE] (time value NaN) or          *)
(* [valid |-> TRUE, day |-> d], d the day number floor(t / 86400000) of    *)
(* its time value: the coercer keeps only the date part of toISOString.    *)

InvalidDate == [valid |-> FALSE]
DateOfDay(d) == [valid |-> TRUE, day |-> d]

IsLeap(y) == y % 4 = 0 /\ (y % 100 # 0 \/ y % 400 = 0)

DaysInMonth(y, m) ==
    IF m = 2 THEN (IF IsLeap(y) THEN 29 ELSE 28)
    ELSE IF m \in {4, 6, 9, 11} THEN 30 ELSE 31

\* MakeDay: the day number of year y, month m (1..12), day d of the
\* proleptic Gregorian calendar; a d beyond the month's end runs on into
\* the next month
DaysFromCivil(y, m, d) ==
    LET yy  == IF m <= 2 THEN y - 1 ELSE y
        era == yy \div 400
        yoe == yy - era * 400
        mp  == IF m > 2 THEN m - 3 ELSE m + 9
        doy == (153 * mp + 2) \div 5 + d - 1
        doe == yoe * 365 + yoe \div 4 - yoe \div 100 + doy
    IN  era * 146097 + doe - 719468

\* YearFromTime, MonthFromTime, DateFromTime of a day number
CivilFromDays(z) ==
    LET zz  == z + 719468
        era == zz \div 146097
        doe == zz - era * 146097
        yoe == (doe - doe \div 1460 + doe \div 36524 - doe \div 146096) \div 365
        doy == doe - (365 * yoe + yoe \div 4 - yoe \div 100)
        mp  == (5 * doy + 2) \div 153
        d   == doy - (153 * mp + 2) \div 5 + 1
        m   == IF mp < 10 THEN mp + 3 ELSE mp - 9
        y   == yoe + era * 400 + (IF m <= 2 THEN 1 ELSE 0)
    IN  [y |-> y, m |-> m, d |-> d]

\* TimeClip on a day number: a time value beyond 8.64e15 ms is NaN
TimeClipDay(d) ==
    IF d < -100000000 \/ d > 100000000 THEN InvalidDate ELSE DateOfDay(d)

\* new Date((serial - 25569) * 86400 * 1000) for a serial >= 0
DateFromSerial(serial) ==
    IF serial.k # "fin" THEN InvalidDate
    ELSE LET ip == serial.m \div Pow10(serial.e)
             fp == serial.m % Pow10(serial.e)
         IN  IF ip - 25569 = 100000000 /\ fp > 0 THEN InvalidDate
             ELSE TimeClipDay(ip - 25569)

\* date.toISOString().split('T')[0] of a valid date: YYYY-MM-DD, the year
\* in the expanded form +YYYYYY / -YYYYYY outside 0..9999
ISODatePart(date) ==
    LET c == CivilFromDays(date.day)
        yr == IF c.y >= 0 /\ c.y <= 9999 THEN PadStart(NatToStr(c.y), 4)
              ELSE (IF c.y < 0 THEN Txt("-") ELSE Txt("+"))
                       \o PadStart(NatToStr(Abs(c.y)), 6)
    IN  yr \o Txt("-") \o PadStart(NatToStr(c.m), 2)
           \o Txt("-") \o PadStart(NatToStr(c.d), 2)

\* new Date(str) for the ISO date-only forms YYYY, YYYY-MM, YYYY-MM-DD (the
\* year also as +YYYYYY / -YYYYYY), which are read as UTC; every other
\* string of this model's inputs is no date in any engine.  A day of month
\* beyond the month's end (up to 31) is rejected by the standard's grammar
\* but run on into the next month by V8: lenient says which engine runs.
DateParse(str, lenient) ==
    LET ext  == Len(str) > 0 /\ str[1] \in {43, 45}
        yl   == IF ext THEN 7 ELSE 4
        ys   == SubSeq(str, IF ext THEN 2 ELSE 1, yl)
        rest == SubSeq(str, yl + 1, Len(str))
        okY  == Len(str) >= yl /\ AllDigits(ys)
                    /\ ~(ext /\ str[1] = 45 /\ DigitsVal(ys) = 0)
        y    == IF ext /\ str[1] = 45 THEN -DigitsVal(ys) ELSE DigitsVal(ys)
        hasM == Len(rest) >= 3
        okM  == rest[1] = 45 /\ AllDigits(SubSeq(rest, 2, 3))
        m    == IF hasM THEN DigitsVal(SubSeq(rest, 2, 3)) ELSE 1
        hasD == Len(rest) = 6
        okD  == rest[4] = 45 /\ AllDigits(SubSeq(rest, 5, 6))
        d    == IF hasD THEN DigitsVal(SubSeq(rest, 5, 6)) ELSE 1
    IN  IF ~okY \/ Len(rest) \notin {0, 3, 6} THEN InvalidDate
        ELSE IF hasM /\ ~okM THEN InvalidDate
        ELSE IF hasD /\ ~okD THEN InvalidDate
        ELSE IF m < 1 \/ m > 12 \/ d < 1 THEN InvalidDate
        ELSE IF d > (IF lenient THEN 31 ELSE DaysInMonth(y, m)) THEN InvalidDate
        ELSE TimeClipDay(DaysFromCivil(y, m, d))

---------------------------------------------------------------------------
(* The field coercers                                                      *)

\* /^\d+\.?\d*$/
IsSerialText(str) ==
    LET ni   == DigitRun(str)
        rest == SubSeq(str, ni + 1, Len(str))
    IN  /\ ni >= 1
        /\ \/ rest = <<>>
           \/ rest[1] = 46 /\ AllDigits(Tail(rest))

\* what parseDate returns: Null, a string, or the RangeError that
\* toISOString throws on an invalid date
parseDate(value, lenient) ==
    IF ~Truthy(value) THEN Null
    ELSE LET str == Trim(JsString(value))
         IN  IF Len(str) = 8 /\ AllDigits(str)
             THEN Str(SubSeq(str, 1, 4) \o Txt("-") \o SubSeq(str, 5, 6)
                          \o Txt("-") \o SubSeq(str, 7, 8))
             ELSE IF IsSerialText(str)
             THEN LET date == DateFromSerial(parseFloat(str))
                  IN  IF date.valid THEN Str(ISODatePart(date))
                      ELSE Threw("RangeError")
             ELSE LET date == DateParse(str, lenient)
                  IN  IF date.valid THEN Str(ISODatePart(date)) ELSE Null

IsEmptyCell(value) ==
    value.t \in {"null", "undefined"} \/ (value.t = "string" /\ value.v = <<>>)

parseNumber_NoNaNCheck(value) ==
    IF IsEmptyCell(value) THEN Num(Zero)
    ELSE Num(parseFloat(Trim(JsString(value))))

parseNumber(value) ==
    IF IsEmptyCell(value) THEN Num(Zero)
    ELSE LET str == Trim(JsString(value))
             num == parseFloat(str)
         IN  IF IsNaN(num) THEN Num(Zero) ELSE Num(num)

parseString(value) ==
    IF Truthy(value) THEN Str(Trim(JsString(value))) ELSE Str(<<>>)

---------------------------------------------------------------------------
(* The row hash                                                            *)

\* TextEncoder.encode: the UTF-8 bytes of a string of basic-plane characters
\* the UTF-8 bytes of one code unit of the basic plane
Utf8Bytes(c) ==
    IF c < 128 THEN <<c>>
    ELSE IF c < 2048 THEN <<192 + (c \div 64), 128 + (c % 64)>>
    ELSE <<224 + (c \div 4096), 128 + ((c \div 64) % 64), 128 + (c % 64)>>

IsByte(b) == b >= 0

\* new TextEncoder().encode(s): three slots for each code unit, the unused
\* slots dropped
Utf8Encode(s) ==
    LET slots == [i \in 1..(3 * Len(s)) |->
                     LET b == Utf8Bytes(s[((i - 1) \div 3) + 1])
                         j == ((i - 1) % 3) + 1
                     IN  IF j <= Len(b) THEN b[j] ELSE -1]
    IN  SelectSeq(slots, IsByte)

\* the character of a base64 digit 0..63 ('=' for the padding digit 64)
Base64Char(d) ==
    IF d < 26 THEN 65 + d
    ELSE IF d < 52 THEN 97 + (d - 26)
    ELSE IF d < 62 THEN 48 + (d - 52)
    ELSE IF d = 62 THEN 43
    ELSE IF d = 63 THEN 47
    ELSE 61

\* btoa of the binary string of a byte sequence
Btoa(bytes) ==
    LET n == Len(bytes)
        Digit(i) ==
            LET g  == (i - 1) \div 4
                k  == ((i - 1) % 4) + 1
                b1 == bytes[(3 * g) + 1]
                b2 == IF (3 * g) + 2 <= n THEN bytes[(3 * g) + 2] ELSE 0
                b3 == IF (3 * g) + 3 <= n THEN bytes[(3 * g) + 3] ELSE 0
            IN  IF k = 1 THEN b1 \div 4
                ELSE IF k = 2 THEN ((b1 % 4) * 16) + (b2 \div 16)
                ELSE IF k = 3
                THEN IF (3 * g) + 2 <= n
                     THEN ((b2 % 16) * 4) + (b3 \div 64) ELSE 64
                ELSE IF (3 * g) + 3 <= n THEN b3 % 64 ELSE 64
    IN  [i \in 1..(4 * ((n + 2) \div 3)) |-> Base64Char(Digit(i))]

IsAlnum(c) == c \in (48..57) \cup (65..90) \cup (97..122)

\* .replace(/[^a-zA-Z0-9]/g, '')
StripNonAlnum(s) == SelectSeq(s, IsAlnum)

\* The fallback loop, hash = ((hash << 5) - hash) + char; hash = hash & hash:
\* the 32-bit hash is kept as its two 16-bit halves [hi, lo], and one step
\* is 31 * hash + char modulo 2^32.
\* The loop is run over the first half of the key and then, from the hash
\* that left, over the second half (the test of mid.lo only makes the
\* first half be computed before the second is entered).
RECURSIVE RollingHash(_, _)
RollingHash(h, key) ==
    IF Len(key) = 0 THEN h
    ELSE IF Len(key) = 1
    THEN LET l == (31 * h.lo) + key[1]
             u == (31 * h.hi) + (l \div 65536)
         IN  [hi |-> u % 65536, lo |-> l % 65536]
    ELSE LET m   == Len(key) \div 2
             mid == RollingHash(h, SubSeq(key, 1, m))
         IN  IF mid.lo >= 0
             THEN RollingHash(mid, SubSeq(key, m + 1, Len(key)))
             ELSE mid

RECURSIVE ToBase36(_)
ToBase36(n) ==
    LET d == n % 36
        c == IF d < 10 THEN 48 + d ELSE 97 + (d - 10)
    IN  IF n < 36 THEN <<c>> ELSE ToBase36(n \div 36) \o <<c>>

\* Math.abs(hash).toString(36) of the signed 32-bit value of [hi, lo]
AbsBase36(h) ==
    LET neg == h.hi >= 32768
        lo2 == IF neg THEN (65536 - h.lo) % 65536 ELSE h.lo
        hi2 == IF neg THEN 65535 - h.hi + (IF h.lo = 0 THEN 1 ELSE 0) ELSE h.hi
    IN  IF hi2 = 32768 THEN Txt("zik0zk")   \* 2^31
        ELSE ToBase36((hi2 * 65536) + lo2)

\* the key of generateRowHash with the head count added to it
RowKey_WithHeadcount(item) ==
    item.workDate \o Txt("_") \o item.contractorName \o Txt("_")
        \o item.projectCode \o Txt("_") \o item.subworkCode \o Txt("_")
        \o item.subareaCode \o Txt("_") \o item.reporter \o Txt("_")
        \o NumberToString(item.inHours) \o Txt("_")
        \o NumberToString(item.outHours) \o Txt("_")
        \o NumberToString(item.headcount)

\* the template string of generateRowHash
RowKey(item) ==
    item.workDate \o Txt("_") \o item.contractorName \o Txt("_")
        \o item.projectCode \o Txt("_") \o item.subworkCode \o Txt("_")
        \o item.subareaCode \o Txt("_") \o item.reporter \o Txt("_")
        \o NumberToString(item.inHours) \o Txt("_")
        \o NumberToString(item.outHours)

\* generateRowHash: the try branch where the engine has TextEncoder and
\* btoa, the catch branch where it has not
generateRowHash(item, encoder) ==
    LET key == RowKey(item)
    IN  IF encoder THEN StripNonAlnum(Btoa(Utf8Encode(key)))
        ELSE AbsBase36(RollingHash([hi |-> 0, lo |-> 0], key))

---------------------------------------------------------------------------
(* The header matcher.  Kanji and kana are written as their code units:    *)
(* <<26085, 20184>> is the two-character header for "date" (hi-zuke).      *)

\* the column-name candidates, in declaration order (Object.entries order)
COLUMN_CANDIDATES ==
    <<
      [key |-> "workDate", candidates |-> <<
          <<26085, 20184>>,
          <<26085, 20184>> \o Txt("(YYYYMMDD|ExcelSerial|string)"),
          Txt("work_date"),
          Txt("date"),
          <<24180, 26376, 26085>>,
          <<20316, 26989, 26085>>
      >>],
      [key |-> "contractorName", candidates |-> <<
          <<26989, 32773, 21517>>,
          <<26989, 32773>>,
          Txt("contractor"),
          Txt("company"),
          <<20250, 31038>>,
          <<20225, 26989>>
      >>],
      [key |-> "reporter", candidates |-> <<
          <<22577, 21578, 32773, 21517>>,
          <<22577, 21578, 32773>>,
          Txt("reporter"),
          Txt("name"),
          <<27663, 21517>>,
          <<25285, 24403, 32773>>
      >>],
      [key |-> "headcount", candidates |-> <<
          <<22312, 31821>>,
          <<20154, 25968>>,
          Txt("headcount"),
          Txt("count"),
          <<20154, 21729>>
      >>],
      [key |-> "employmentCode", candidates |-> <<
          <<38599>>,
          <<38599, 29992, 21306, 20998>>,
          Txt("employment"),
          Txt("emp_code"),
          <<38599, 29992>>
      >>],
      [key |-> "projectCode", candidates |-> <<
          <<24037, 20107, 30058, 21495>>,
          <<24037, 20107, 30058, 21495>> \o Txt("(Sxxxx)"),
          Txt("project"),
          Txt("project_code"),
          <<24037, 20107>>,
          <<12503, 12525, 12472, 12455, 12463, 12488>>
      >>],
      [key |-> "subareaCode", candidates |-> <<
          <<23567, 21306, 30011>>,
          <<23567, 21306, 30011>> \o Txt("(code") \o <<20363>> \o Txt(": B12P/H5P/...)"),
          Txt("subarea"),
          Txt("area"),
          <<21306, 30011>>
      >>],
      [key |-> "subworkCode", candidates |-> <<
          <<23567, 21306, 20998>>,
          <<23567, 21306, 20998>> \o Txt("(code") \o <<20363>> \o Txt(": 25K/211/...)"),
          Txt("subwork"),
          Txt("work_code"),
          <<20316, 26989>>,
          <<24037, 31278>>
      >>],
      [key |-> "inHours", candidates |-> <<
          <<35215, 20869>>,
          <<35215, 20869>> \o Txt("(numeric)"),
          Txt("in_hours"),
          Txt("regular"),
          <<36890, 24120>>,
          <<23450, 26178>>
      >>],
      [key |-> "outHours", candidates |-> <<
          <<35215, 22806>>,
          <<35215, 22806>> \o Txt("(numeric)"),
          Txt("out_hours"),
          Txt("overtime"),
          <<27531, 26989>>,
          <<36229, 36942>>
      >>],
      [key |-> "totalHours", candidates |-> <<
          <<35336>>,
          <<35336>> \o Txt("(numeric)"),
          Txt("total_hours"),
          Txt("total"),
          <<21512, 35336>>,
          <<32207, 35336>>
      >>]
    >>

\* headers.filter(header => header && typeof header === 'string')
IsValidHeader(h) == h.t = "string" /\ h.v # <<>>

\* headerLower === candidateLower
ExactMatch(hl, cl) == hl = cl

\* headerLower.includes(candidateLower) || candidateLower.includes(headerLower)
ContainsMatch(hl, cl) == Includes(hl, cl) \/ Includes(cl, hl)

\* the per-character rule with some() in place of every()
PartialMatch_SomeChar(hl, cl) ==
    \E i \in 1..Len(cl) : \E j \in 1..Len(hl) : hl[j] = cl[i]

\* candidateLower.split('').every(char => headerLower.includes(char))
PartialMatch(hl, cl) ==
    \A i \in 1..Len(cl) : \E j \in 1..Len(hl) : hl[j] = cl[i]

\* the predicate of validHeaders.find
HeaderMatches(header, candidate) ==
    LET hl == Trim(ToLowerCase(header))
        cl == Trim(ToLowerCase(candidate))
    IN  ExactMatch(hl, cl) \/ ContainsMatch(hl, cl) \/ PartialMatch(hl, cl)

\* Array.prototype.find over the valid headers: the index in headers of
\* the first valid header that matches the candidate, 0 for undefined
FindHeader(hdrs, candidate) ==
    LET hits == {i \in 1..Len(hdrs) :
                     IsValidHeader(hdrs[i])
                         /\ HeaderMatches(hdrs[i].v, candidate)}
    IN  IF hits = {} THEN 0 ELSE CHOOSE i \in hits : \A j \in hits : i <= j

\* the for loop over the candidates of one field: the index of the header
\* found for the first candidate that finds one, 0 when none does
RECURSIVE FieldHeader(_, _)
FieldHeader(hdrs, candidates) ==
    IF Len(candidates) = 0 THEN 0
    ELSE LET found == FindHeader(hdrs, Head(candidates))
         IN  IF found # 0 THEN found
             ELSE FieldHeader(hdrs, Tail(candidates))

\* detectColumns: the mapping from the matched field keys to their headers
detectColumns(hdrs) ==
    LET n      == Len(COLUMN_CANDIDATES)
        at(i)  == FieldHeader(hdrs, COLUMN_CANDIDATES[i].candidates)
        keys   == {COLUMN_CANDIDATES[i].key : i \in {j \in 1..n : at(j) # 0}}
        idx(k) == CHOOSE i \in 1..n : COLUMN_CANDIDATES[i].key = k
    IN  [k \in keys |-> hdrs[at(idx(k))].v]

---------------------------------------------------------------------------
(* The import handler and the shared store                                 *)

\* itemsWithHash = parsedWorkItems.map(item => ({...item, srcHash: ...}))
WithHashes(items, encoder) ==
    [i \in 1..Len(items) |->
        [items[i] EXCEPT !.srcHash = generateRowHash(items[i], encoder)]]

\* the forEach of the duplicate check with hashSet.add left out
RECURSIVE DedupLoop_NoAdd(_, _, _, _)
DedupLoop_NoAdd(items, hashSet, uniqueItems, duplicates) ==
    IF Len(items) = 0
    THEN [uniqueItems |-> uniqueItems, duplicates |-> duplicates]
    ELSE LET item == Head(items)
         IN  IF item.srcHash \in hashSet
             THEN DedupLoop_NoAdd(Tail(items), hashSet, uniqueItems,
                                  Append(duplicates, item))
             ELSE DedupLoop_NoAdd(Tail(items), hashSet,
                                  Append(uniqueItems, item), duplicates)

\* the forEach of the duplicate check run from the last item to the first
RECURSIVE DedupLoop_Backwards(_, _, _, _)
DedupLoop_Backwards(items, hashSet, uniqueItems, duplicates) ==
    IF Len(items) = 0
    THEN [uniqueItems |-> uniqueItems, duplicates |-> duplicates]
    ELSE LET item == items[Len(items)]
             rest == SubSeq(items, 1, Len(items) - 1)
         IN  IF item.srcHash \in hashSet
             THEN DedupLoop_Backwards(rest, hashSet, uniqueItems,
                                      <<item>> \o duplicates)
             ELSE DedupLoop_Backwards(rest, hashSet \cup {item.srcHash},
                                      <<item>> \o uniqueItems, duplicates)

\* itemsWithHash.forEach(item => if (hashSet.has(item.srcHash)) ... else ...)
RECURSIVE DedupLoop(_, _, _, _)
DedupLoop(items, hashSet, uniqueItems, duplicates) ==
    IF Len(items) = 0
    THEN [uniqueItems |-> uniqueItems, duplicates |-> duplicates]
    ELSE LET item == Head(items)
         IN  IF item.srcHash \in hashSet
             THEN DedupLoop(Tail(items), hashSet, uniqueItems,
                            Append(duplicates, item))
             ELSE DedupLoop(Tail(items), hashSet \cup {item.srcHash},
                            Append(uniqueItems, item), duplicates)

Dedup_NoAdd(items) == DedupLoop_NoAdd(items, {}, <<>>, <<>>)

Dedup_Backwards(items) == DedupLoop_Backwards(items, {}, <<>>, <<>>)

\* the duplicate check: hashSet, duplicates and uniqueItems start empty
Dedup(items) == DedupLoop(items, {}, <<>>, <<>>)

\* item.subworkCode && !definedCodes.has(item.subworkCode)
IsUndefinedCode(item, definedCodes) ==
    item.subworkCode # <<>> /\ item.subworkCode \notin definedCodes

\* uniqueItems.filter(...) against the codes of the parsed code sheet
UndefinedCodeItems(uniqueItems, parsedWorkCodes) ==
    LET definedCodes ==
            {parsedWorkCodes[i].subworkCode : i \in 1..Len(parsedWorkCodes)}
        undef(item) == IsUndefinedCode(item, definedCodes)
    IN  SelectSeq(uniqueItems, undef)

\* the updater of addWorkItems without the filter
addWorkItems_NoFilter(prev, items) == prev \o items

\* the updater of addWorkItems
addWorkItems(prev, items) ==
    LET existingHashes == {prev[i].srcHash : i \in 1..Len(prev)}
        isNew(item) == item.srcHash \notin existingHashes
    IN  prev \o SelectSeq(items, isNew)

\* the updater of addWorkCodes
addWorkCodes(prev, codes) ==
    LET existingCodes == {prev[i].subworkCode : i \in 1..Len(prev)}
        isNew(code) == code.subworkCode \notin existingCodes
    IN  prev \o SelectSeq(codes, isNew)

\* validateFileType: a file is its MIME type being an allowed one and its
\* size class: "small" (up to 5 MB), "large" (up to 10 MB), "huge"
validateFileType(file) ==
    LET errs  == (IF file.typeOk THEN <<>> ELSE <<"unsupported file type">>)
                     \o (IF file.size = "huge" THEN <<"file too large">> ELSE <<>>)
        warns == IF file.size \in {"large", "huge"}
                 THEN <<"large file, slow">> ELSE <<>>
    IN  [isValid |-> errs = <<>>, errors |-> errs, warnings |-> warns]

\* createError(code): the timestamp is left out
createError(code) == [code |-> code, message |-> code]

\* getUserFriendlyMessage
getUserFriendlyMessage(error) == "friendly: " \o error.code

---------------------------------------------------------------------------
(* Dashboard and Reports: utils/dataAggregation.ts and the report filter   *)

\* a + b on numbers
NumAdd(a, b) ==
    IF a.k = "nan" \/ b.k = "nan" THEN NaN
    ELSE IF a.k = "inf"
    THEN (IF b.k = "inf" /\ b.neg # a.neg THEN NaN ELSE a)
    ELSE IF b.k = "inf" THEN b
    ELSE LET e == IF a.e > b.e THEN a.e ELSE b.e
         IN  Fin((a.m * Pow10(e - a.e)) + (b.m * Pow10(e - b.e)), e)

\* n > 0 on numbers
NumIsPositive(n) ==
    \/ n.k = "fin" /\ n.m > 0
    \/ n.k = "inf" /\ ~n.neg

\* Number((out / total * 100).toFixed(1)) for total > 0: toFixed takes the
\* nearest one-decimal number and, of two equally near, the one farther
\* from zero
PercentFixed1(out, total) ==
    IF out.k = "nan" \/ total.k = "nan" THEN NaN
    ELSE IF out.k = "inf"
    THEN (IF total.k = "inf" THEN NaN ELSE Infinity(out.neg))
    ELSE IF total.k = "inf" THEN Zero
    ELSE LET num == 1000 * Abs(out.m) * Pow10(total.e)
             den == total.m * Pow10(out.e)
             n   == ((2 * num) + den) \div (2 * den)
         IN  Fin(IF out.m < 0 THEN -n ELSE n, 1)

\* workItems.reduce((sum, item) => sum + item[field], 0)
RECURSIVE SumField(_, _)
SumField(items, field) ==
    IF Len(items) = 0 THEN Zero
    ELSE NumAdd(SumField(SubSeq(items, 1, Len(items) - 1), field),
                items[Len(items)][field])

\* calculateTotals
calculateTotals(items) ==
    LET totalInHours  == SumField(items, "inHours")
        totalOutHours == SumField(items, "outHours")
        totalHours    == NumAdd(totalInHours, totalOutHours)
    IN  [totalInHours |-> totalInHours, totalOutHours |-> totalOutHours,
         totalHours |-> totalHours,
         overtimeRatio |-> IF NumIsPositive(totalHours)
                           THEN PercentFixed1(totalOutHours, totalHours)
                           ELSE Zero]

\* the key of a group of aggregateByWorkType
GroupKey(item) == item.projectCode \o Txt("_") \o item.subworkCode

\* the keys a fresh object literal answers with an inherited value: the
\* properties of Object.prototype whose names hold an underscore, as every
\* key of a group does; each value is an object or a function, so truthy
InheritedKeys ==
    {Txt("__proto__"), Txt("__defineGetter__"), Txt("__defineSetter__"),
     Txt("__lookupGetter__"), Txt("__lookupSetter__")}

\* the reduce step of aggregateByWorkType for a key that is not inherited
GroupStepOwnKey(acc, item) ==
    LET key  == GroupKey(item)
        has  == \E i \in 1..Len(acc) : acc[i].key = key
        acc1 == IF has THEN acc
                ELSE Append(acc, [key |-> key, projectCode |-> item.projectCode,
                                  subworkCode |-> item.subworkCode,
                                  kinai |-> Zero, kigai |-> Zero, kei |-> Zero])
    IN  [i \in 1..Len(acc1) |->
            IF acc1[i].key = key
            THEN [acc1[i] EXCEPT !.kinai = NumAdd(@, item.inHours),
                                 !.kigai = NumAdd(@, item.outHours),
                                 !.kei = NumAdd(@, item.totalHours)]
            ELSE acc1[i]]

\* one step of the reduce of aggregateByWorkType: acc is the list of the
\* own properties of the accumulator in the order their keys were inserted;
\* kinai, kigai and kei are the regular, overtime and total hours of a
\* group. For an inherited key !acc[key] is false and the three additions
\* write to the inherited object, which Object.values(grouped) does not
\* list: the own properties stay as they are
GroupStep(acc, item) ==
    IF GroupKey(item) \in InheritedKeys THEN acc
    ELSE GroupStepOwnKey(acc, item)

\* workItems.reduce(..., {}) and Object.values of it
RECURSIVE Grouped(_)
Grouped(items) ==
    IF Len(items) = 0 THEN <<>>
    ELSE GroupStep(Grouped(SubSeq(items, 1, Len(items) - 1)),
                   items[Len(items)])

\* workCodes.find(code => code.subworkCode === subworkCode): the index of
\* the first such code, 0 for undefined
FindCode(codes, subworkCode) ==
    LET hits == {i \in 1..Len(codes) : codes[i].subworkCode = subworkCode}
    IN  IF hits = {} THEN 0 ELSE CHOOSE i \in hits : \A j \in hits : i <= j

\* workTypeName of a group (or of a work item)
WorkTypeName(group, codes) ==
    LET found == FindCode(codes, group.subworkCode)
    IN  IF found # 0 /\ codes[found].majorName # <<>>
        THEN codes[found].majorName
        ELSE IF found # 0 /\ codes[found].subworkName # <<>>
        THEN codes[found].subworkName
        ELSE <<24037, 20107>> \o group.projectCode \o Txt("_")
                 \o group.subworkCode

\* one step of the forEach over the groups: rows is workTypeMap in
\* insertion order
WorkTypeStep(rows, group, codes) ==
    LET name  == WorkTypeName(group, codes)
        has   == \E i \in 1..Len(rows) : rows[i].name = name
        rows1 == IF has THEN rows
                 ELSE Append(rows, [name |-> name, kinai |-> Zero,
                                    kigai |-> Zero, kei |-> Zero])
    IN  [i \in 1..Len(rows1) |->
            IF rows1[i].name = name
            THEN [rows1[i] EXCEPT !.kinai = NumAdd(@, group.kinai),
                                  !.kigai = NumAdd(@, group.kigai),
                                  !.kei = NumAdd(@, group.kei)]
            ELSE rows1[i]]

RECURSIVE WorkTypeRows(_, _)
WorkTypeRows(groups, codes) ==
    IF Len(groups) = 0 THEN <<>>
    ELSE WorkTypeStep(WorkTypeRows(SubSeq(groups, 1, Len(groups) - 1), codes),
                      groups[Len(groups)], codes)

\* aggregateByWorkType
aggregateByWorkType(items, codes) ==
    IF Len(items) = 0 THEN <<>>
    ELSE WorkTypeRows(Grouped(items), codes)

\* a < b on strings: by the first code unit that differs, a proper prefix
\* before the longer string
StrLess(a, b) ==
    \E k \in 1..(Len(b)) :
        /\ \A i \in 1..(k - 1) : i <= Len(a) /\ a[i] = b[i]
        /\ \/ Len(a) = k - 1
           \/ Len(a) >= k /\ a[k] < b[k]

\* the filter callback of filteredData with <= for < on the from side
FilterKeeps_FromExclusive(item, f) ==
    /\ ~(f.project # <<>> /\ ~Includes(item.projectCode, f.project))
    /\ ~(f.contractor # <<>> /\ ~Includes(item.contractorName, f.contractor))
    /\ ~(f.fromDate # <<>> /\ ~StrLess(f.fromDate, item.workDate))
    /\ ~(f.toDate # <<>> /\ StrLess(f.toDate, item.workDate))

\* the filter callback of filteredData
FilterKeeps(item, f) ==
    /\ ~(f.project # <<>> /\ ~Includes(item.projectCode, f.project))
    /\ ~(f.contractor # <<>> /\ ~Includes(item.contractorName, f.contractor))
    /\ ~(f.fromDate # <<>> /\ StrLess(item.workDate, f.fromDate))
    /\ ~(f.toDate # <<>> /\ StrLess(f.toDate, item.workDate))

\* filteredData of the Reports page
filteredData(items, f) ==
    LET keeps(item) == FilterKeeps(item, f)
    IN  SelectSeq(items, keeps)

\* Math.round(n * 10^d) / 10^d: the nearest number of d decimals, of two
\* equally near the larger
MathRoundTo(n, d) ==
    IF n.k # "fin" \/ n.e <= d THEN n
    ELSE Fin(((2 * n.m * Pow10(d)) + Pow10(n.e)) \div (2 * Pow10(n.e)), d)

\* Math.round((out / total) * 1000) / 1000 for total > 0
FractionRound3(out, total) ==
    IF out.k = "nan" \/ total.k = "nan" THEN NaN
    ELSE IF out.k = "inf"
    THEN (IF total.k = "inf" THEN NaN ELSE Infinity(out.neg))
    ELSE IF total.k = "inf" THEN Zero
    ELSE LET num == 1000 * out.m * Pow10(total.e)
             den == total.m * Pow10(out.e)
         IN  Fin(((2 * num) + den) \div (2 * den), 3)

\* the text the report shows for a name the taxonomy does not give
UndefinedName == <<26410, 23450, 32681>>

\* workCode?.majorName || UndefinedName, and the same for subworkName
NameOrUndefined(codes, subworkCode, field) ==
    LET found == FindCode(codes, subworkCode)
    IN  IF found # 0 /\ codes[found][field] # <<>> THEN codes[found][field]
        ELSE UndefinedName

\* one step of the forEach of reportData: groups is projectGroups in
\* insertion order; kouji, daikubun and shokubun are the project code, the
\* major name and the sub-work name of a group, kigaiHiritsu its overtime
\* fraction
ReportStep(groups, item, codes) ==
    LET key  == GroupKey(item)
        has  == \E i \in 1..Len(groups) : groups[i].key = key
        grp1 == IF has THEN groups
                ELSE Append(groups,
                        [key |-> key, kouji |-> item.projectCode,
                         daikubun |-> NameOrUndefined(codes, item.subworkCode,
                                                      "majorName"),
                         shokubun |-> NameOrUndefined(codes, item.subworkCode,
                                                      "subworkName"),
                         kinai |-> Zero, kigai |-> Zero, kei |-> Zero,
                         kigaiHiritsu |-> Zero])
    IN  [i \in 1..Len(grp1) |->
            IF grp1[i].key = key
            THEN [grp1[i] EXCEPT !.kinai = NumAdd(@, item.inHours),
                                 !.kigai = NumAdd(@, item.outHours),
                                 !.kei = NumAdd(@, item.totalHours)]
            ELSE grp1[i]]

RECURSIVE ReportGroups(_, _)
ReportGroups(items, codes) ==
    IF Len(items) = 0 THEN <<>>
    ELSE ReportStep(ReportGroups(SubSeq(items, 1, Len(items) - 1), codes),
                    items[Len(items)], codes)

\* the map callback of reportData: the row of a group
ReportRow(group) ==
    [kouji |-> group.kouji, daikubun |-> group.daikubun,
     shokubun |-> group.shokubun,
     kinai |-> MathRoundTo(group.kinai, 1),
     kigai |-> MathRoundTo(group.kigai, 1),
     kei |-> MathRoundTo(group.kei, 1),
     kigaiHiritsu |-> IF NumIsPositive(group.kei)
                      THEN FractionRound3(group.kigai, group.kei)
                      ELSE Zero]

\* a < b on numbers neither of which is NaN
NumLess(a, b) ==
    IF a.k = "inf" THEN a.neg /\ ~(b.k = "inf" /\ b.neg)
    ELSE IF b.k = "inf" THEN ~b.neg
    ELSE LET e == IF a.e > b.e THEN a.e ELSE b.e
         IN  a.m * Pow10(e - a.e) < b.m * Pow10(e - b.e)

\* rows.sort(before): the stable sort, a row placed after the rows that are
\* not after it; before(a, b) is comparator(a, b) < 0
StableRank(rows, i, before(_, _)) ==
    Cardinality({j \in 1..Len(rows) :
                    \/ before(rows[j], rows[i])
                    \/ ~before(rows[i], rows[j]) /\ j < i}) + 1

StableSort(rows, before(_, _)) ==
    [r \in 1..Len(rows) |->
        rows[CHOOSE i \in 1..Len(rows) : StableRank(rows, i, before) = r]]

\* reportData of the Reports page, for the filtered records
reportData(items, codes) ==
    IF Len(items) = 0 THEN <<>>
    ELSE LET groups == ReportGroups(items, codes)
             rows   == [i \in 1..Len(groups) |-> ReportRow(groups[i])]
             byTotalDescending(a, b) == NumLess(b.kei, a.kei)
         IN  StableSort(rows, byTotalDescending)

\* one step of the reduce of timeSeriesData: acc is dailyData in insertion
\* order
SeriesStep(acc, item) ==
    LET has  == \E i \in 1..Len(acc) : acc[i].date = item.workDate
        acc1 == IF has THEN acc
                ELSE Append(acc, [date |-> item.workDate, kinai |-> Zero,
                                  kigai |-> Zero, kei |-> Zero])
    IN  [i \in 1..Len(acc1) |->
            IF acc1[i].date = item.workDate
            THEN [acc1[i] EXCEPT !.kinai = NumAdd(@, item.inHours),
                                 !.kigai = NumAdd(@, item.outHours),
                                 !.kei = NumAdd(@, item.totalHours)]
            ELSE acc1[i]]

RECURSIVE SeriesGroups(_)
SeriesGroups(items) ==
    IF Len(items) = 0 THEN <<>>
    ELSE SeriesStep(SeriesGroups(SubSeq(items, 1, Len(items) - 1)),
                    items[Len(items)])

\* the map callback of timeSeriesData
SeriesRow(entry) ==
    [date |-> entry.date, kinai |-> MathRoundTo(entry.kinai, 1),
     kigai |-> MathRoundTo(entry.kigai, 1),
     kei |-> MathRoundTo(entry.kei, 1)]

\* timeSeriesData without the sort
timeSeriesData_Unsorted(items) ==
    IF Len(items) = 0 THEN <<>>
    ELSE LET entries == SeriesGroups(items)
         IN  [i \in 1..Len(entries) |-> SeriesRow(entries[i])]

\* timeSeriesData of the Reports page, for the filtered records; the
\* dates are the empty string or of the form YYYY-MM-DD, for which
\* localeCompare orders as the code units do
timeSeriesData(items) ==
    IF Len(items) = 0 THEN <<>>
    ELSE LET entries == SeriesGroups(items)
             rows    == [i \in 1..Len(entries) |-> SeriesRow(entries[i])]
             byDate(a, b) == StrLess(a.date, b.date)
         IN  StableSort(rows, byDate)

\* parts.join(sep)
RECURSIVE Join(_, _)
Join(parts, sep) ==
    IF Len(parts) = 0 THEN <<>>
    ELSE IF Len(parts) = 1 THEN parts[1]
    ELSE Join(SubSeq(parts, 1, Len(parts) - 1), sep) \o sep
             \o parts[Len(parts)]

\* Object.keys of a report row
ReportFieldNames ==
    <<<<24037, 20107, 30058, 21495>>,
      <<22823, 21306, 20998>>,
      <<23567, 21306, 20998>>,
      <<35215, 20869>>,
      <<35215, 22806>>,
      <<35336>>,
      <<35215, 22806, 27604, 29575>>>>

\* Object.values of a report row, each as join writes it
ReportFieldTexts(row) ==
    <<row.kouji, row.daikubun, row.shokubun, NumberToString(row.kinai),
      NumberToString(row.kigai), NumberToString(row.kei),
      NumberToString(row.kigaiHiritsu)>>

\* csvContent of handleExportCSV for a report that is not empty
csvContent(rows) ==
    Join(<<Join(ReportFieldNames, Txt(","))>>
             \o [i \in 1..Len(rows) |->
                    Join(ReportFieldTexts(rows[i]), Txt(","))],
         <<10>>)


---------------------------------------------------------------------------
(* parseExcelFile of utils/excelParser.ts over a read workbook: a workbook *)
(* is the outcome of the read ("ok", "fail" for reader.onerror, "corrupt"  *)
(* for bytes XLSX.read throws on) and its sheets in the order of           *)
(* Object.keys(workbook.Sheets), a sheet is a name and the rows            *)
(* sheet_to_json gives with header: 1, a row is a list of raw cells        *)

\* the sheet names parseExcelFile looks for
DailySheetName == <<12487, 12540, 12479, 40, 26085, 22577, 41>>
CodesSheetName == <<12467, 12540, 12489>>

\* workbook.Sheets[name]: the index of the sheet, 0 for undefined
SheetNamed(sheets, name) ==
    LET hits == {i \in 1..Len(sheets) : sheets[i].name = name}
    IN  IF hits = {} THEN 0 ELSE CHOOSE i \in hits : \A j \in hits : i <= j

\* row[i] for a 0-based index i, -1 included
CellAt(row, i) == IF i >= 0 /\ i < Len(row) THEN row[i + 1] ELSE Undefined

\* (data[r] as any[])?.map(h => h ? String(h).trim() : '') || []
HeaderTexts(data, r) ==
    IF r >= Len(data) THEN <<>>
    ELSE [i \in 1..Len(data[r + 1]) |->
            IF Truthy(data[r + 1][i]) THEN Trim(JsString(data[r + 1][i]))
            ELSE <<>>]

\* data.slice(r)
RowsFrom(data, r) == SubSeq(data, r + 1, Len(data))

\* the header positions of the fields of the positional mapping
PositionalFields ==
    [workDate |-> 0, contractorName |-> 1, reporter |-> 2, headcount |-> 3,
     employmentCode |-> 5, projectCode |-> 6, subareaCode |-> 10,
     subworkCode |-> 11, inHours |-> 14, outHours |-> 15, totalHours |-> 16]

\* columnMapping of parseExcelFile: the fields whose header is not empty
PositionalMapping(hdrs) ==
    LET at(k) == PositionalFields[k]
    IN  [k \in {f \in DOMAIN PositionalFields :
                    at(f) < Len(hdrs) /\ hdrs[at(f) + 1] # <<>>}
            |-> hdrs[at(k) + 1]]

\* headers.indexOf(columnName), 0-based
IndexOf(hdrs, columnName) ==
    LET hits == {i \in 1..Len(hdrs) : hdrs[i] = columnName}
    IN  IF hits = {} THEN -1
        ELSE (CHOOSE i \in hits : \A j \in hits : i <= j) - 1

\* row.some(cell => cell !== null && cell !== undefined && cell !== '')
IsDataRow(row) == \E i \in 1..Len(row) : ~IsEmptyCell(row[i])

\* item[key] after the forEach over the entries of columnMapping
ItemField(row, hdrs, colMap, key) ==
    IF key \in DOMAIN colMap
    THEN CellAt(row, IndexOf(hdrs, colMap[key]))
    ELSE Undefined

\* Math.max(0, n)
NumMax0(n) ==
    IF n.k = "nan" THEN NaN ELSE IF NumIsPositive(n) THEN n ELSE Zero

\* the work item the map callback builds of a row whose date cell does
\* not make parseDate throw; index is 0-based, the clock readings of the
\* id and of createdAt are left out
BuildWorkItem(row, index, hdrs, colMap, lenient) ==
    LET raw(key)  == ItemField(row, hdrs, colMap, key)
        date      == parseDate(raw("workDate"), lenient)
        inHours   == parseNumber(raw("inHours")).v
        outHours  == parseNumber(raw("outHours")).v
    IN  [id |-> Txt("work_") \o NatToStr(index),
         workDate |-> IF date.t = "string" THEN date.v ELSE <<>>,
         contractorId |->
             Txt("contractor_") \o parseString(raw("contractorName")).v,
         contractorName |-> parseString(raw("contractorName")).v,
         reporter |-> parseString(raw("reporter")).v,
         headcount |-> parseNumber(raw("headcount")).v,
         employmentCode |-> parseString(raw("employmentCode")).v,
         projectId |-> Txt("project_") \o parseString(raw("projectCode")).v,
         projectCode |-> parseString(raw("projectCode")).v,
         subareaCode |-> parseString(raw("subareaCode")).v,
         subworkCode |-> parseString(raw("subworkCode")).v,
         inHours |-> inHours, outHours |-> outHours,
         totalHours |-> NumMax0(NumAdd(inHours, outHours)),
         srcHash |-> <<>>,
         createdAt |-> Txt("2025-01-20T00:00:00.000Z")]

\* the words of the code-sheet headers: major class, sub class, name, note
MajorWord == <<22823, 21306, 20998>>
SubworkWord == <<23567, 21306, 20998>>
NameWord == <<21517, 31216>>
NoteWord == <<20633, 32771>>

\* codesHeaders.findIndex(h => h && h.includes(word) && <name test>),
\* 0-based: the name test is h.includes(NameWord) for "with",
\* !h.includes(NameWord) for "without", and absent for "any"
CodeHeaderIndex(hdrs, word, name) ==
    LET hits == {i \in 1..Len(hdrs) :
                    /\ hdrs[i] # <<>>
                    /\ Includes(hdrs[i], word)
                    /\ name = "with" => Includes(hdrs[i], NameWord)
                    /\ name = "without" => ~Includes(hdrs[i], NameWord)}
    IN  IF hits = {} THEN -1
        ELSE (CHOOSE i \in hits : \A j \in hits : i <= j) - 1

\* the work code the map callback builds of a row of the code sheet; the
\* clock reading of updatedAt is left out, and the note of a sheet without
\* a note column, undefined in the code, is the empty string here
BuildWorkCode(row, hdrs) ==
    LET majorCodeIndex   == CodeHeaderIndex(hdrs, MajorWord, "without")
        majorNameIndex   == CodeHeaderIndex(hdrs, MajorWord, "with")
        subworkCodeIndex == CodeHeaderIndex(hdrs, SubworkWord, "without")
        subworkNameIndex == CodeHeaderIndex(hdrs, SubworkWord, "with")
        noteIndex        == CodeHeaderIndex(hdrs, NoteWord, "any")
    IN  [subworkCode |-> parseString(CellAt(row, subworkCodeIndex)).v,
         subworkName |-> parseString(CellAt(row, subworkNameIndex)).v,
         majorCode |-> parseString(CellAt(row, majorCodeIndex)).v,
         majorName |-> parseString(CellAt(row, majorNameIndex)).v,
         note |-> IF noteIndex >= 0
                  THEN parseString(CellAt(row, noteIndex)).v ELSE <<>>,
         version |-> Txt("1.0"),
         updatedAt |-> Txt("2025-01-20T00:00:00.000Z")]

\* the rows of a sheet that pass the filter, in order
DataRows(data, r) ==
    SelectSeq(RowsFrom(data, r), IsDataRow)

\* workItems of parseExcelFile for the rows of the daily sheet
DailyWorkItems(data, lenient) ==
    LET hdrs   == HeaderTexts(data, 4)
        colMap == PositionalMapping(hdrs)
        rows   == DataRows(data, 5)
    IN  [i \in 1..Len(rows) |->
            BuildWorkItem(rows[i], i - 1, hdrs, colMap, lenient)]

\* a row of the daily sheet makes parseDate throw
DailyThrows(data, lenient) ==
    LET hdrs   == HeaderTexts(data, 4)
        colMap == PositionalMapping(hdrs)
        rows   == DataRows(data, 5)
    IN  \E i \in 1..Len(rows) :
            parseDate(ItemField(rows[i], hdrs, colMap, "workDate"),
                      lenient).t = "throw"

\* workCodes of parseExcelFile for the rows of the code sheet
SheetWorkCodes(data) ==
    LET hdrs == HeaderTexts(data, 2)
        rows == DataRows(data, 3)
    IN  [i \in 1..Len(rows) |-> BuildWorkCode(rows[i], hdrs)]

\* what the promise of parseExcelFile settles with
parseExcelFile(wb, lenient) ==
    IF wb.read = "fail"
    THEN [ok |-> FALSE, error |-> createError("FILE_READ_ERROR")]
    ELSE IF wb.read = "corrupt"
    THEN [ok |-> FALSE, error |-> createError("EXCEL_PARSE_ERROR")]
    ELSE LET named == SheetNamed(wb.sheets, DailySheetName)
             daily == IF named # 0 THEN named
                      ELSE IF Len(wb.sheets) > 0 THEN 1 ELSE 0
             codes == SheetNamed(wb.sheets, CodesSheetName)
         IN  IF daily = 0
             THEN [ok |-> FALSE, error |-> createError("EXCEL_PARSE_ERROR")]
             ELSE IF DailyThrows(wb.sheets[daily].rows, lenient)
             THEN [ok |-> FALSE, error |-> createError("EXCEL_PARSE_ERROR")]
             ELSE [ok |-> TRUE,
                   workItems |->
                       DailyWorkItems(wb.sheets[daily].rows, lenient),
                   workCodes |->
                       IF codes = 0 THEN <<>>
                       ELSE SheetWorkCodes(wb.sheets[codes].rows),
                   columnMapping |->
                       PositionalMapping(
                           HeaderTexts(wb.sheets[daily].rows, 4))]

\* undefinedCodes of the Codes page: the list of undefined codes it shows
CodesPageUndefinedCodes ==
    <<[subworkCode |-> Txt("999"), count |-> 5,
       firstSeen |-> Txt("2025-01-15")],
      [subworkCode |-> Txt("888"), count |-> 3,
       firstSeen |-> Txt("2025-01-14")]>>

---------------------------------------------------------------------------
(* Inputs.  Every bound of the model is named here.                        *)

RECURSIVE Concat(_)
Concat(ps) == IF Len(ps) = 0 THEN <<>> ELSE Head(ps) \o Concat(Tail(ps))

\* all sequences over S of length at most n
SeqsUpTo(S, n) == UNION {[1..k -> S] : k \in 0..n}

DateYears == {Txt("2025"), Txt("2024"), Txt("0000")}
DateMonths == {Txt("00"), Txt("01"), Txt("02"), Txt("12"), Txt("13")}
DateDays == {Txt("00"), Txt("01"), Txt("29"), Txt("30"), Txt("31"), Txt("45")}

SerialTexts ==
    {Txt("1"), Txt("60"), Txt("44927"), Txt("44927.5"), Txt("45672."),
     Txt("2958465"), Txt("2958466"), Txt("9999999"), Txt("100025569"),
     Txt("100025569.5"), Txt("100025570"), Txt("999999999")}

\* raw cells handed to parseDate
DateCells ==
    {Null, Undefined, Str(<<>>), Str(Txt("  ")), Str(Txt("abc")),
     Str(Txt(" 20250115 ")), Str(Txt("2025-01")), Str(Txt("+012025-03-04")),
     Num(Zero), Num(Fin(45000, 0)), Num(Fin(20250115, 0)), Num(Fin(449275, 1))}
    \cup {Str(y \o m \o d) : y \in DateYears, m \in DateMonths, d \in DateDays}
    \cup {Str(y \o Txt("-") \o m \o Txt("-") \o d) :
              y \in DateYears, m \in DateMonths, d \in DateDays}
    \cup {Str(s) : s \in SerialTexts}

\* a text cell handed to parseNumber or parseString is made of at most
\* MaxNumParts of these parts
MaxNumParts == 3

NumParts ==
    {Txt("8"), Txt("12"), Txt("5"), Txt("."), Txt("-"), Txt(" "), Txt("h"),
     Txt("Infinity")}

NumCells ==
    {Null, Undefined, Num(Zero), Num(Fin(10, 0)), Num(Fin(85, 1)),
     Num(Fin(-3, 0))}
    \cup {Str(Concat(ps)) : ps \in SeqsUpTo(NumParts, MaxNumParts)}

\* the work item the row-hash calls start from; its contractor name is
\* the five characters U+3232 U+4E09 U+548C U+5DE5 U+696D
HashItem ==
    [id |-> Txt("work_0_0"), workDate |-> Txt("2025-01-15"),
     contractorId |-> Txt("contractor_") \o <<12850, 19977, 21644, 24037, 26989>>,
     contractorName |-> <<12850, 19977, 21644, 24037, 26989>>,
     reporter |-> <<30000, 20013>>, headcount |-> Fin(12, 0),
     employmentCode |-> Txt("1"), projectId |-> Txt("project_S1234"),
     projectCode |-> Txt("S1234"), subareaCode |-> Txt("B12P"),
     subworkCode |-> Txt("25K"), inHours |-> Fin(8, 0),
     outHours |-> Fin(15, 1), totalHours |-> Fin(95, 1), srcHash |-> <<>>,
     createdAt |-> Txt("2025-01-20T00:00:00.000Z")]

\* the work items recA of the row-hash calls
HashPool ==
    {HashItem,
     [HashItem EXCEPT !.contractorName = Txt("a"), !.projectCode = Txt("b_c")]}

\* the values a field of recB may be changed to
HashFieldValues ==
    [id |-> {Txt("work_0_1")},
     workDate |-> {Txt("2025-01-16"), <<>>},
     contractorId |-> {Txt("contractor_a")},
     contractorName |-> {Txt("a_b"), Txt("a")},
     reporter |-> {Txt("r"), Txt("r>"), Txt("r?")},
     headcount |-> {Fin(3, 0)},
     employmentCode |-> {Txt("2")},
     projectId |-> {Txt("project_c")},
     projectCode |-> {Txt("c"), Txt("b_c")},
     subareaCode |-> {Txt("H5P")},
     subworkCode |-> {Txt("211")},
     inHours |-> {Fin(75, 1), Zero},
     outHours |-> {Zero},
     totalHours |-> {Fin(8, 0)},
     srcHash |-> {Txt("stale")},
     createdAt |-> {Txt("2025-01-21T00:00:00.000Z")}]

\* recB differs from a pool item by at most MaxChanges field changes
MaxChanges == 2

\* a header row has at most MaxHeaders cells, each one of HeaderCells
MaxHeaders == 3

HeaderCells ==
    {Null, Str(<<>>), Str(Txt(" ")),
     Str(<<26085, 20184>>),                    \* hi-zuke (date)
     Str(<<20316, 26989, 26085, 20184>>),      \* sagyou-hi-zuke (work date)
     Str(Txt("Date ")), Str(Txt("work_date")),
     Str(<<35215, 20869>>),                    \* ki-nai (regular hours)
     Str(<<35215, 22806>>),                    \* ki-gai (overtime hours)
     Str(Txt("dt"))}

\* the six primary header names of the daily sheet, in field-declaration
\* order, each with its parenthetically annotated variant (the contractor
\* header has none)
PrimaryHeaders ==
    << [key |-> "workDate", plain |-> <<26085, 20184>>,
        annotated |-> <<26085, 20184>> \o Txt("(YYYYMMDD)")],
       [key |-> "contractorName", plain |-> <<26989, 32773, 21517>>,
        annotated |-> <<26989, 32773, 21517>>],
       [key |-> "projectCode", plain |-> <<24037, 20107, 30058, 21495>>,
        annotated |-> <<24037, 20107, 30058, 21495>> \o Txt("(Sxxxx)")],
       [key |-> "subworkCode", plain |-> <<23567, 21306, 20998>>,
        annotated |-> <<23567, 21306, 20998>> \o Txt("(code") \o <<20363>>
                          \o Txt(": 25K/211/...)")],
       [key |-> "inHours", plain |-> <<35215, 20869>>,
        annotated |-> <<35215, 20869>> \o Txt("(numeric)")],
       [key |-> "outHours", plain |-> <<35215, 22806>>,
        annotated |-> <<35215, 22806>> \o Txt("(numeric)")] >>

\* the orders the primary headers may come in
PrimaryOrders ==
    {f \in [1..Len(PrimaryHeaders) -> 1..Len(PrimaryHeaders)] :
        \A i, j \in 1..Len(PrimaryHeaders) : i # j => f[i] # f[j]}

\* which of the primary headers carry their annotation: none, all, or one
AnnotatedSets ==
    {{}, 1..Len(PrimaryHeaders)} \cup {{i} : i \in 1..Len(PrimaryHeaders)}

PrimaryHeaderText(i, A) ==
    IF i \in A THEN PrimaryHeaders[i].annotated ELSE PrimaryHeaders[i].plain

\* the header rows made of the primary header names
PrimaryHeaderRows ==
    {[i \in 1..Len(PrimaryHeaders) |-> Str(PrimaryHeaderText(f[i], A))] :
        f \in PrimaryOrders, A \in AnnotatedSets}

\* the work items a parsed data sheet is made of
ItemPool ==
    {[HashItem EXCEPT !.id = <<>>],
     [HashItem EXCEPT !.id = <<>>, !.subworkCode = Txt("211"),
                      !.workDate = Txt("2025-01-16"), !.inHours = Fin(75, 1),
                      !.outHours = Zero, !.totalHours = Fin(75, 1)]}

\* a parsed data sheet has at most MaxBatch rows
MaxBatch == 3

\* the id of row index i of a batch (0-based): work_<now>_<i>, the clock
\* reading left out
WithIds(items) ==
    [i \in 1..Len(items) |->
        [items[i] EXCEPT !.id = Txt("work_") \o NatToStr(i - 1)]]

Batches == {WithIds(b) : b \in SeqsUpTo(ItemPool, MaxBatch)}

Code25K ==
    [subworkCode |-> Txt("25K"), subworkName |-> Txt("welding"),
     majorCode |-> Txt("2"), majorName |-> Txt("steel"), note |-> <<>>,
     version |-> Txt("1.0"), updatedAt |-> Txt("2025-01-20T00:00:00.000Z")]

CodeSheets == {<<>>, <<Code25K>>}

\* the column mapping parseExcelFile returns for a sheet whose header row
\* carries the first candidate of every field
SheetMapping ==
    LET n == Len(COLUMN_CANDIDATES)
        idx(k) == CHOOSE i \in 1..n : COLUMN_CANDIDATES[i].key = k
    IN  [k \in {COLUMN_CANDIDATES[i].key : i \in 1..n} |->
            COLUMN_CANDIDATES[idx(k)].candidates[1]]

\* what a parseExcelFile promise settles with
ParseOutcomes ==
    {[ok |-> TRUE, workItems |-> b, workCodes |-> c,
      columnMapping |-> SheetMapping] : b \in Batches, c \in CodeSheets}
    \cup {[ok |-> FALSE, error |-> createError(e)] :
              e \in {"FILE_READ_ERROR", "EXCEL_PARSE_ERROR"}}

Files == [typeOk : BOOLEAN, size : {"small", "large", "huge"}]

\* the work items the store may hold when a page aggregates them
ReportPool ==
    {[HashItem EXCEPT !.projectCode = Txt("a_b"), !.subworkCode = Txt("c")],
     [HashItem EXCEPT !.projectCode = Txt("a"), !.subworkCode = Txt("b_c"),
                      !.workDate = Txt("2025-01-16"), !.inHours = Fin(75, 1),
                      !.outHours = Fin(5, 1), !.totalHours = Fin(8, 0)],
     [HashItem EXCEPT !.contractorName = Txt("acme"),
                      !.workDate = Txt("2025-01-31"), !.inHours = Fin(3, 0),
                      !.outHours = Fin(1, 0), !.totalHours = Fin(4, 0)],
     [HashItem EXCEPT !.subworkCode = Txt("211"), !.workDate = <<>>,
                      !.inHours = Zero, !.outHours = Zero,
                      !.totalHours = Zero],
     [HashItem EXCEPT !.projectCode = Txt("S6290"),
                      !.subworkCode = Txt("211"),
                      !.workDate = Txt("2024-12-31"),
                      !.outHours = Fin(-15, 1), !.totalHours = Fin(65, 1)],
     [HashItem EXCEPT !.outHours = Infinity(FALSE),
                      !.totalHours = Infinity(FALSE)],
     [HashItem EXCEPT !.projectCode = <<>>,
                      !.subworkCode = Txt("_proto__")]}

\* a page aggregates at most MaxReportItems work items
MaxReportItems == 3

\* the lists of different work items of the pool
ReportItemLists ==
    {s \in SeqsUpTo(ReportPool, MaxReportItems) :
        \A i, j \in 1..Len(s) : i # j => s[i] # s[j]}

WorkCodeOf(subworkCode, subworkName, majorName) ==
    [Code25K EXCEPT !.subworkCode = subworkCode, !.subworkName = subworkName,
                    !.majorName = majorName]

\* the taxonomies the store may hold
Taxonomies ==
    {<<>>,
     <<WorkCodeOf(Txt("c"), Txt("s1"), Txt("M")),
       WorkCodeOf(Txt("b_c"), Txt("s2"), Txt("N")),
       WorkCodeOf(Txt("25K"), Txt("s3"), Txt("M")),
       WorkCodeOf(Txt("211"), Txt("welding"), <<>>)>>,
     <<WorkCodeOf(Txt("211"), <<>>, <<>>),
       WorkCodeOf(Txt("25K"), Txt("welding"), <<>>)>>}

\* the filters the Reports page may be set to
FilterSets ==
    [project : {<<>>, Txt("S12")}, contractor : {<<>>, Txt("acme")},
     fromDate : {<<>>, Txt("2025-01-15")}, toDate : {<<>>, Txt("2025-01-16")}]

\* the header row of the daily sheet of the template: date, contractor,
\* reporter, headcount, -, employment, project, -, -, -, subarea, subwork,
\* -, -, regular hours, overtime hours, total
TemplateHeaderRow ==
    <<Str(<<26085, 20184>>),
      Str(<<26989, 32773, 21517>>),
      Str(<<22577, 21578, 32773, 21517>>),
      Str(<<22312, 31821>>),
      Null,
      Str(<<38599>>),
      Str(<<24037, 20107, 30058, 21495>>),
      Null,
      Null,
      Null,
      Str(<<23567, 21306, 30011>>),
      Str(<<23567, 21306, 20998>>),
      Null,
      Null,
      Str(<<35215, 20869>>),
      Str(<<35215, 22806>>),
      Str(<<35336>>)>>

\* a row of the daily sheet under the template header
DailyRow(date, subwork, inCell, outCell) ==
    <<date, Str(<<12850, 19977, 21644, 24037, 26989>>),
      Str(<<30000, 20013>>), Num(Fin(12, 0)), Null, Str(Txt("1")),
      Str(Txt("S1234")), Null, Null, Null, Str(Txt("B12P")), subwork,
      Null, Null, inCell, outCell, Null>>

\* the rows a daily sheet may hold: plain ones (the first with a total cell
\* that is not the sum of its hours), one with negative hours, one with
\* infinite hours, one whose date is a serial no date can hold, and an
\* empty one
DailyRowPool ==
    {[DailyRow(Str(Txt("20250115")), Str(Txt("25K")), Num(Fin(8, 0)),
               Num(Fin(15, 1))) EXCEPT ![17] = Num(Fin(99, 0))],
     DailyRow(Str(Txt("20250117")), Str(Txt("25K")), Str(Txt("Infinity")),
              Str(Txt("-Infinity"))),
     DailyRow(Num(Fin(45000, 0)), Str(Txt("211")), Str(Txt("7.5h")),
              Str(Txt("abc"))),
     DailyRow(Str(Txt("20250116")), Str(Txt("211")), Num(Fin(-3, 0)),
              Str(Txt("-1.5"))),
     DailyRow(Str(Txt("999999999")), Str(Txt("25K")), Num(Fin(8, 0)), Null),
     <<Null, Str(<<>>)>>}

\* a daily sheet has at most MaxSheetRows rows under its header row
MaxSheetRows == 2

\* the rows above the header row of the template
Preamble(n) == [i \in 1..n |-> <<Str(Txt("report"))>>]

\* the daily sheets: the header row as fifth row (the template) or as
\* first row, then the rows
DailySheets ==
    {[name |-> DailySheetName, rows |-> Preamble(above) \o <<h>> \o rows] :
        above \in {0, 4}, h \in {TemplateHeaderRow},
        rows \in SeqsUpTo(DailyRowPool, MaxSheetRows)}

\* a header row whose fifth column carries the text of the regular-hours
\* column
DupHeaderRow == [TemplateHeaderRow EXCEPT ![5] = TemplateHeaderRow[15]]

\* the daily sheets under such a header row, of one row
DupHeaderSheets ==
    {[name |-> DailySheetName,
      rows |-> Preamble(4) \o <<DupHeaderRow, row>>] : row \in DailyRowPool}

\* the header row of the code sheet: major class, its name, sub class,
\* its name, note
CodeHeaderRow ==
    <<Str(<<22823, 21306, 20998>>), Str(<<22823, 21306, 20998, 21517, 31216>>), Str(<<23567, 21306, 20998>>), Str(<<23567, 21306, 20998, 21517, 31216>>), Str(<<20633, 32771>>)>>

CodeRow(subwork, name) ==
    <<Str(Txt("2")), Str(Txt("steel")), subwork, name, Null>>

\* the rows a code sheet may hold; two of them carry the same code
CodeRowPool ==
    {CodeRow(Str(Txt("25K")), Str(Txt("welding"))),
     CodeRow(Str(Txt("25K")), Str(Txt("cutting"))),
     CodeRow(Num(Fin(211, 0)), Str(Txt("fitting")))}

\* a code sheet has at most MaxCodeRows rows under its header row
MaxCodeRows == 2

\* the code sheets: the header row as third row (the template) or as
\* first row, then the rows
CodeSheetsOfFile ==
    {[name |-> CodesSheetName, rows |-> Preamble(above) \o <<h>> \o rows] :
        above \in {0, 2}, h \in {CodeHeaderRow},
        rows \in SeqsUpTo(CodeRowPool, MaxCodeRows)}

\* the files handed to the Import page: unreadable ones, a workbook
\* without sheets, workbooks with a daily sheet only, with a code sheet
\* only, and with both sheets
Workbooks ==
    {[read |-> r, sheets |-> <<>>] : r \in {"fail", "corrupt", "ok"}}
    \cup {[read |-> "ok", sheets |-> <<d>>] :
              d \in DailySheets \cup DupHeaderSheets}
    \cup {[read |-> "ok", sheets |-> <<c>>] : c \in CodeSheetsOfFile}
    \cup {[read |-> "ok", sheets |-> <<d, c>>] :
              d \in {s \in DailySheets : Len(s.rows) = 6},
              c \in CodeSheetsOfFile}
    \cup {[read |-> "ok", sheets |-> <<d, c>>] :
              d \in {s \in DailySheets : Len(s.rows) = 3},
              c \in {s \in CodeSheetsOfFile : Len(s.rows) = 3}}

\* the work items of the store when the Reports page shows its views: those
\* of ReportPool and one whose project code holds a comma and whose hours
\* have two decimals
ViewPool ==
    ReportPool
    \cup {[HashItem EXCEPT !.projectCode = Txt("S1,2"),
                           !.workDate = Txt("2025-01-16"),
                           !.inHours = Fin(725, 2), !.outHours = Fin(25, 2),
                           !.totalHours = Fin(75, 1)]}

\* the Reports page shows views of at most MaxViewItems work items
MaxViewItems == 2

ViewItemLists ==
    {s \in SeqsUpTo(ViewPool, MaxViewItems) :
        \A i, j \in 1..Len(s) : i # j => s[i] # s[j]}

\* at most MaxUploads files are handed to the Import page
MaxUploads == 1

\* the rows of the files of a session of imports
SessionRows ==
    <<[HashItem EXCEPT !.id = <<>>],
      [HashItem EXCEPT !.id = <<>>, !.subworkCode = Txt("211"),
                       !.workDate = Txt("2025-01-16")],
      [HashItem EXCEPT !.id = <<>>, !.projectCode = Txt("S6290")]>>

\* the parsed data sheets of the files of a session: two files that share a
\* row, and a file with the same row twice
SessionBatches ==
    {WithIds(<<SessionRows[1], SessionRows[2]>>),
     WithIds(<<SessionRows[2], SessionRows[3]>>),
     WithIds(<<SessionRows[1], SessionRows[1]>>)}

\* what the parseExcelFile promise of a file of a session settles with
SessionOutcomes ==
    {[ok |-> TRUE, workItems |-> b, workCodes |-> <<Code25K>>,
      columnMapping |-> SheetMapping] : b \in SessionBatches}
    \cup {[ok |-> FALSE, error |-> createError("EXCEL_PARSE_ERROR")]}

\* at most MaxSessionUploads files are handed to the Import page in a
\* session
MaxSessionUploads == 3

---------------------------------------------------------------------------
(* Initial states: each specification starts its own part of the state and *)
(* leaves the other parts idle.                                            *)

NoResult == [t |-> "none"]
NoHash == <<-1>>
NoMapping == [done |-> FALSE]
NoSettle == [ok |-> "none"]
NoRun == [ran |-> FALSE]

IdleCoerce == cell = Null /\ op = "none" /\ res = NoResult /\ fed = FALSE

IdleHash ==
    /\ recA = HashItem /\ recB = HashItem
    /\ hashA = NoHash /\ hashB = NoHash /\ nchg = 0

IdleColumns == headers = <<>> /\ mapping = NoMapping

\* useState initial value of the filters of the Reports page
NoFilters ==
    [project |-> <<>>, contractor |-> <<>>, fromDate |-> <<>>, toDate |-> <<>>]

NoReport == [memo |-> "none"]

IdleReport == filters = NoFilters /\ report = NoReport

NoWorkbook == [read |-> "none"]

IdleWorkbook == workbook = NoWorkbook

\* useState initial values of DataProvider and of the Import page
InitImport ==
    /\ workItems = <<>> /\ workCodes = <<>>
    /\ isProcessing = FALSE /\ importResult = Null
    /\ pageWorkItems = <<>> /\ pageWorkCodes = <<>> /\ columnMapping = <<>>
    /\ errors = <<>> /\ appError = Null
    /\ uploads = 0 /\ inFlight = 0 /\ settled = NoSettle /\ run = NoRun

InitDate ==
    /\ cell \in DateCells
    /\ op = "none" /\ res = NoResult /\ fed = FALSE
    /\ lenientDay \in BOOLEAN /\ hasEncoder = TRUE
    /\ IdleHash /\ IdleColumns /\ InitImport /\ IdleReport /\ IdleWorkbook

InitCoerce ==
    /\ cell \in NumCells
    /\ op = "none" /\ res = NoResult /\ fed = FALSE
    /\ lenientDay = FALSE /\ hasEncoder = TRUE
    /\ IdleHash /\ IdleColumns /\ InitImport /\ IdleReport /\ IdleWorkbook

InitHash ==
    /\ recA \in HashPool /\ recB = recA
    /\ hashA = NoHash /\ hashB = NoHash /\ nchg = 0
    /\ lenientDay = FALSE /\ hasEncoder \in BOOLEAN
    /\ IdleCoerce /\ IdleColumns /\ InitImport /\ IdleReport /\ IdleWorkbook

InitColumns ==
    /\ headers \in SeqsUpTo(HeaderCells, MaxHeaders)
    /\ mapping = NoMapping
    /\ lenientDay = FALSE /\ hasEncoder = TRUE
    /\ IdleCoerce /\ IdleHash /\ InitImport /\ IdleReport /\ IdleWorkbook

InitPrimary ==
    /\ headers \in PrimaryHeaderRows
    /\ mapping = NoMapping
    /\ lenientDay = FALSE /\ hasEncoder = TRUE
    /\ IdleCoerce /\ IdleHash /\ InitImport /\ IdleReport /\ IdleWorkbook

\* the store after some imports, the filters after some edits
InitReports ==
    /\ workItems \in ReportItemLists /\ workCodes \in Taxonomies
    /\ filters \in FilterSets /\ report = NoReport
    /\ isProcessing = FALSE /\ importResult = Null
    /\ pageWorkItems = <<>> /\ pageWorkCodes = <<>> /\ columnMapping = <<>>
    /\ errors = <<>> /\ appError = Null
    /\ uploads = 0 /\ inFlight = 0 /\ settled = NoSettle /\ run = NoRun
    /\ lenientDay = FALSE /\ hasEncoder = TRUE
    /\ IdleCoerce /\ IdleHash /\ IdleColumns /\ IdleWorkbook

\* the Import page mounted, a file chosen
InitIngest ==
    /\ InitImport
    /\ workbook \in Workbooks
    /\ lenientDay = FALSE /\ hasEncoder = TRUE
    /\ IdleCoerce /\ IdleHash /\ IdleColumns /\ IdleReport

\* the Reports page mounted over a filled store, the filters edited
InitViews ==
    /\ workItems \in ViewItemLists /\ workCodes \in Taxonomies
    /\ filters \in FilterSets /\ report = NoReport
    /\ isProcessing = FALSE /\ importResult = Null
    /\ pageWorkItems = <<>> /\ pageWorkCodes = <<>> /\ columnMapping = <<>>
    /\ errors = <<>> /\ appError = Null
    /\ uploads = 0 /\ inFlight = 0 /\ settled = NoSettle /\ run = NoRun
    /\ lenientDay = FALSE /\ hasEncoder = TRUE
    /\ IdleCoerce /\ IdleHash /\ IdleColumns /\ IdleWorkbook

Init ==
    /\ InitImport
    /\ lenientDay = FALSE /\ hasEncoder \in BOOLEAN
    /\ IdleCoerce /\ IdleHash /\ IdleColumns /\ IdleReport /\ IdleWorkbook

\* a session of imports: the store empty, the Import page mounted
InitSession ==
    /\ InitImport
    /\ lenientDay = FALSE /\ hasEncoder = TRUE
    /\ IdleCoerce /\ IdleHash /\ IdleColumns /\ IdleReport /\ IdleWorkbook

---------------------------------------------------------------------------
(* Calls of the coercers: an action is one call; Refeed hands a date       *)
(* string that parseDate returned back to parseDate.                       *)

ParseDate ==
    /\ op = "none"
    /\ op' = "parseDate"
    /\ res' = parseDate(cell, lenientDay)
    /\ UNCHANGED <<cell, fed, envVars, hashVars, colVars, importVars,
                   reportVars, workbook>>

Refeed ==
    /\ op = "parseDate"
    /\ res.t = "string"
    /\ ~fed
    /\ cell' = res
    /\ fed' = TRUE
    /\ op' = "none"
    /\ res' = NoResult
    /\ UNCHANGED <<envVars, hashVars, colVars, importVars,
                   reportVars, workbook>>

ParseNumber ==
    /\ op = "none"
    /\ op' = "parseNumber"
    /\ res' = parseNumber(cell)
    /\ UNCHANGED <<cell, fed, envVars, hashVars, colVars, importVars,
                   reportVars, workbook>>

ParseString ==
    /\ op = "none"
    /\ op' = "parseString"
    /\ res' = parseString(cell)
    /\ UNCHANGED <<cell, fed, envVars, hashVars, colVars, importVars,
                   reportVars, workbook>>

---------------------------------------------------------------------------
(* Calls of generateRowHash on two work items                              *)

ChangeField ==
    /\ hashA = NoHash
    /\ nchg < MaxChanges
    /\ \E f \in DOMAIN HashFieldValues : \E v \in HashFieldValues[f] :
          /\ recB[f] # v
          /\ recB' = [recB EXCEPT ![f] = v]
    /\ nchg' = nchg + 1
    /\ UNCHANGED <<recA, hashA, hashB, coerceVars, envVars, colVars, importVars,
                   reportVars, workbook>>

GenerateRowHash ==
    /\ hashA = NoHash
    /\ hashA' = generateRowHash(recA, hasEncoder)
    /\ hashB' = generateRowHash(recB, hasEncoder)
    /\ UNCHANGED <<recA, recB, nchg, coerceVars, envVars, colVars, importVars,
                   reportVars, workbook>>

---------------------------------------------------------------------------
(* A call of detectColumns                                                 *)

DetectColumns ==
    /\ ~mapping.done
    /\ mapping' = [done |-> TRUE, map |-> detectColumns(headers)]
    /\ UNCHANGED <<headers, coerceVars, envVars, hashVars, importVars,
                   reportVars, workbook>>

---------------------------------------------------------------------------
(* The Import page.  handleFileUpload runs up to its await in StartUpload; *)
(* the FileReader callbacks of parseExcelFile settle the promise in        *)
(* ParseSettle; the rest of handleFileUpload runs in Continue, as the      *)
(* microtask that follows the settling at once.                            *)

BeginUpload(file) ==
    /\ uploads' = uploads + 1
    /\ LET validation == validateFileType(file)
       IN  /\ importResult' = Null
           /\ appError' = Null
           /\ IF ~validation.isValid
              THEN /\ errors' = validation.errors
                   /\ isProcessing' = FALSE
                   /\ inFlight' = inFlight
              ELSE /\ errors' = validation.warnings
                   /\ isProcessing' = TRUE
                   /\ inFlight' = inFlight + 1
    /\ run' = NoRun
    /\ UNCHANGED <<settled, pageWorkItems, pageWorkCodes, columnMapping,
                   storeVars,
                   coerceVars, envVars, hashVars, colVars, reportVars,
                   workbook>>

StartUpload ==
    /\ settled = NoSettle
    /\ uploads < MaxUploads
    /\ \E file \in Files : BeginUpload(file)

\* handleFileInput: the change event of the file input, which is disabled
\* while isProcessing is true
HandleFileInput ==
    /\ settled = NoSettle
    /\ uploads < MaxSessionUploads
    /\ isProcessing = FALSE
    /\ \E file \in Files : BeginUpload(file)

\* handleDrop: the drop event of the upload area, for a drop that holds a
\* file whose name ends in .xlsx or .xls; the area takes drops whatever
\* isProcessing is
HandleDrop ==
    /\ settled = NoSettle
    /\ uploads < MaxSessionUploads
    /\ \E file \in Files : BeginUpload(file)

\* the parseExcelFile promise of one of the uploads in flight settles
SessionSettle ==
    /\ settled = NoSettle
    /\ inFlight > 0
    /\ inFlight' = inFlight - 1
    /\ settled' \in SessionOutcomes
    /\ UNCHANGED <<uploads, run, storeVars, pageVars,
                   coerceVars, envVars, hashVars, colVars, reportVars,
                   workbook>>

\* clearData of the DataProvider
ClearData ==
    /\ settled = NoSettle
    /\ workItems' = <<>>
    /\ workCodes' = <<>>
    /\ UNCHANGED <<pageVars, runVars,
                   coerceVars, envVars, hashVars, colVars, reportVars,
                   workbook>>

ParseSettle ==
    /\ settled = NoSettle
    /\ inFlight > 0
    /\ inFlight' = inFlight - 1
    /\ settled' \in ParseOutcomes
    /\ UNCHANGED <<uploads, run, storeVars, pageVars,
                   coerceVars, envVars, hashVars, colVars, reportVars,
                   workbook>>

\* the reader of parseExcelFile fires onload or onerror for the file
ReadSettle ==
    /\ settled = NoSettle
    /\ inFlight > 0
    /\ inFlight' = inFlight - 1
    /\ settled' = parseExcelFile(workbook, lenientDay)
    /\ UNCHANGED <<uploads, run, storeVars, pageVars,
                   coerceVars, envVars, hashVars, colVars, reportVars,
                   workbook>>

Continue ==
    /\ settled # NoSettle
    /\ settled' = NoSettle
    /\ IF settled.ok = TRUE
       THEN \E itemsWithHash \in {WithHashes(settled.workItems, hasEncoder)} :
            \E d \in {Dedup(itemsWithHash)} :
            \E undefinedCodes \in {UndefinedCodeItems(d.uniqueItems,
                                                      settled.workCodes)} :
                /\ run' = [ran |-> TRUE, itemsWithHash |-> itemsWithHash,
                           uniqueItems |-> d.uniqueItems,
                           duplicates |-> d.duplicates, before |-> workItems]
                /\ importResult' =
                       [inserted |-> Len(d.uniqueItems), updated |-> 0,
                        duplicates |-> Len(d.duplicates), errors |-> 0,
                        undefinedCodes |-> Len(undefinedCodes)]
                /\ pageWorkItems' = d.uniqueItems
                /\ pageWorkCodes' = settled.workCodes
                /\ columnMapping' = settled.columnMapping
                /\ workItems' = addWorkItems(workItems, d.uniqueItems)
                /\ workCodes' = addWorkCodes(workCodes, settled.workCodes)
                /\ errors' = IF Len(undefinedCodes) > 0
                             THEN <<"undefined codes found">> ELSE errors
                /\ UNCHANGED appError
       ELSE /\ appError' = settled.error
            /\ errors' = <<getUserFriendlyMessage(settled.error)>>
            /\ run' = NoRun
            /\ UNCHANGED <<importResult, pageWorkItems, pageWorkCodes,
                           columnMapping, storeVars>>
    /\ isProcessing' = FALSE
    /\ UNCHANGED <<uploads, inFlight, coerceVars, envVars, hashVars, colVars,
                   reportVars, workbook>>

---------------------------------------------------------------------------
(* The memos of Dashboard and Reports over the store                       *)

FilteredData ==
    /\ report = NoReport
    /\ report' = [memo |-> "filteredData",
                  out |-> filteredData(workItems, filters)]
    /\ UNCHANGED <<filters, workbook, coerceVars, envVars, hashVars, colVars,
                   importVars>>

AggregateByWorkType ==
    /\ report = NoReport
    /\ report' = [memo |-> "aggregateByWorkType",
                  out |-> aggregateByWorkType(workItems, workCodes)]
    /\ UNCHANGED <<filters, workbook, coerceVars, envVars, hashVars, colVars,
                   importVars>>

CalculateTotals ==
    /\ report = NoReport
    /\ report' = [memo |-> "calculateTotals", out |-> calculateTotals(workItems)]
    /\ UNCHANGED <<filters, workbook, coerceVars, envVars, hashVars, colVars,
                   importVars>>

ReportData ==
    /\ report = NoReport
    /\ report' = [memo |-> "reportData",
                  out |-> reportData(filteredData(workItems, filters),
                                     workCodes)]
    /\ UNCHANGED <<filters, workbook, coerceVars, envVars, hashVars, colVars,
                   importVars>>

TimeSeriesData ==
    /\ report = NoReport
    /\ report' = [memo |-> "timeSeriesData",
                  out |-> timeSeriesData(filteredData(workItems, filters))]
    /\ UNCHANGED <<filters, workbook, coerceVars, envVars, hashVars, colVars,
                   importVars>>

\* handleExportCSV: nothing is exported of an empty report
HandleExportCSV ==
    /\ report = NoReport
    /\ \E rows \in {reportData(filteredData(workItems, filters),
                                workCodes)} :
          report' = IF Len(rows) = 0
                    THEN [memo |-> "handleExportCSV", exported |-> FALSE]
                    ELSE [memo |-> "handleExportCSV", exported |-> TRUE,
                          rows |-> rows, out |-> csvContent(rows)]
    /\ UNCHANGED <<filters, workbook, coerceVars, envVars, hashVars, colVars,
                   importVars>>

---------------------------------------------------------------------------
(* Specifications                                                          *)

NextDate == ParseDate \/ Refeed

NextCoerce == ParseNumber \/ ParseString

NextHash == ChangeField \/ GenerateRowHash

NextColumns == DetectColumns

Next == StartUpload \/ ParseSettle \/ Continue

NextIngest == StartUpload \/ ReadSettle \/ Continue

NextReports == FilteredData \/ AggregateByWorkType \/ CalculateTotals

NextViews == ReportData \/ TimeSeriesData \/ HandleExportCSV

SpecDate == InitDate /\ [][NextDate]_vars

SpecCoerce == InitCoerce /\ [][NextCoerce]_vars

SpecHash == InitHash /\ [][NextHash]_vars

SpecColumns == InitColumns /\ [][NextColumns]_vars

SpecPrimary == InitPrimary /\ [][NextColumns]_vars

SpecIngest == InitIngest /\ [][NextIngest]_vars

SpecReports == InitReports /\ [][NextReports]_vars

SpecViews == InitViews /\ [][NextViews]_vars

NextSession ==
    HandleFileInput \/ HandleDrop \/ SessionSettle \/ Continue \/ ClearData

SpecSession == InitSession /\ [][NextSession]_vars

Spec == Init /\ [][Next]_vars

---------------------------------------------------------------------------
(* Properties of the duplicate check of handleFileUpload                   *)

\* C1: for every batch of hashed records the duplicate check went through,
\* the unique records and the duplicate records together are as many as
\* the batch, and no two unique records have the same srcHash.
C1_DedupPartition ==
    run.ran =>
        /\ Len(run.uniqueItems) + Len(run.duplicates) = Len(run.itemsWithHash)
        /\ importResult.inserted + importResult.duplicates
               = Len(run.itemsWithHash)
        /\ \A i, j \in 1..Len(run.uniqueItems) :
               i # j => run.uniqueItems[i].srcHash # run.uniqueItems[j].srcHash

\* a batch with two different records and a repeated one was checked
C1_Witness ==
    /\ run.ran
    /\ Len(run.uniqueItems) >= 2
    /\ Len(run.duplicates) >= 1

\* the items of a batch at the indices of I, in the batch's order
ItemsAt(items, I) ==
    LET rank(i) == Cardinality({j \in I : j <= i})
    IN  [k \in 1..Cardinality(I) |-> items[CHOOSE i \in I : rank(i) = k]]

\* no earlier record of the batch has the srcHash of record i
IsFirstOccurrence(items, i) ==
    \A j \in 1..(i - 1) : items[j].srcHash # items[i].srcHash

\* C2: a record is in the unique list exactly when no earlier record of
\* the batch has its srcHash, and in the duplicates list otherwise; both
\* lists keep the records in the order of the batch.
C2_FirstOccurrenceIsUnique ==
    run.ran =>
        LET items  == run.itemsWithHash
            firsts == {i \in 1..Len(items) : IsFirstOccurrence(items, i)}
        IN  /\ run.uniqueItems = ItemsAt(items, firsts)
            /\ run.duplicates = ItemsAt(items, (1..Len(items)) \ firsts)

\* a batch whose repeated record comes between two first occurrences (or
\* after them) was checked: the first and the last record differ
C2_Witness ==
    /\ run.ran
    /\ Len(run.itemsWithHash) >= 3
    /\ Len(run.duplicates) >= 1
    /\ run.itemsWithHash[1].srcHash
           # run.itemsWithHash[Len(run.itemsWithHash)].srcHash

---------------------------------------------------------------------------
(* Properties of a session of imports: several files, the store cleared at *)
(* any time                                                                *)

\* no two records of the store have the same srcHash
DistinctHashes ==
    \A i, j \in 1..Len(workItems) :
        i # j => workItems[i].srcHash # workItems[j].srcHash

\* the store after the step begins with the store before it
StoreKept ==
    /\ Len(workItems) <= Len(workItems')
    /\ SubSeq(workItems', 1, Len(workItems)) = workItems

\* C27: after any sequence of imports and clearData calls from the empty
\* store no two records of the shared store have the same srcHash, and the
\* continuation of an import leaves the records the store already held in
\* place, in their order.
C27_DistinctHashesStoreKept ==
    /\ []DistinctHashes
    /\ [][settled # NoSettle => StoreKept]_vars

\* an import onto a store that is not empty has added some of its records
\* and left out the others, which the store already held
C27_Witness ==
    /\ run.ran
    /\ Len(run.before) > 0
    /\ Len(workItems) > Len(run.before)
    /\ Len(workItems) < Len(run.before) + Len(run.uniqueItems)

\* C28: the inserted count of the import result of an import is the number
\* of records the import added to the shared store.
C28_InsertedIsAdded ==
    [][(settled # NoSettle /\ settled.ok = TRUE)
          => importResult'.inserted = Len(workItems') - Len(workItems)]_vars

\* the same for an import none of whose records is in the store already
C28_InsertedIsAddedWhenNew ==
    [][(/\ settled # NoSettle /\ settled.ok = TRUE
        /\ \A i \in 1..Len(run'.uniqueItems) : \A j \in 1..Len(workItems) :
               run'.uniqueItems[i].srcHash # workItems[j].srcHash)
          => importResult'.inserted = Len(workItems') - Len(workItems)]_vars

\* C29: while the file of an upload is being parsed isProcessing is true.
C29_ProcessingWhileParsing == inFlight > 0 => isProcessing = TRUE

\* the same while at most one upload has been started
C29_ProcessingOfOneUpload == uploads <= 1 => C29_ProcessingWhileParsing

---------------------------------------------------------------------------
(* Properties of generateRowHash                                           *)

SignificantFields ==
    {"workDate", "contractorName", "projectCode", "subworkCode",
     "subareaCode", "reporter", "inHours", "outHours"}

OtherFields ==
    {"id", "createdAt", "headcount", "employmentCode", "totalHours",
     "srcHash"}

Hashed == hashA # NoHash

\* C3: two records that differ in at least one significant field get
\* different generateRowHash values.
C3_DifferentFieldsDifferentHash ==
    (Hashed /\ \E f \in SignificantFields : recA[f] # recB[f])
        => hashA # hashB

\* C4: two records that agree on the eight significant fields get the same
\* generateRowHash value, whatever their id, createdAt, headcount,
\* employmentCode, totalHours and srcHash are; the value is that of a
\* repeated call on the same record.
C4_HashIgnoresOtherFields ==
    (Hashed /\ \A f \in SignificantFields : recA[f] = recB[f])
        => /\ hashA = hashB
           /\ hashA = generateRowHash(recA, hasEncoder)

\* two records that differ only in fields that are not significant were
\* hashed
C4_Witness ==
    /\ Hashed
    /\ \A f \in SignificantFields : recA[f] = recB[f]
    /\ Cardinality({f \in OtherFields : recA[f] # recB[f]}) = MaxChanges

---------------------------------------------------------------------------
(* Properties of detectColumns                                             *)

\* C9: in the mapping that detectColumns returns no header is assigned to
\* two different fields.
C9_NoHeaderForTwoFields ==
    mapping.done =>
        \A k1, k2 \in DOMAIN mapping.map :
            k1 # k2 => mapping.map[k1] # mapping.map[k2]

ValidHeaders(hdrs) == {i \in 1..Len(hdrs) : IsValidHeader(hdrs[i])}

\* the candidates of a field that some valid header matches by some rule
MatchedCandidates(hdrs, candidates) ==
    {i \in 1..Len(candidates) : FindHeader(hdrs, candidates[i]) # 0}

\* C10: for the candidate that gave a field its header, a header that
\* matches the candidate exactly is chosen over one that matches it only by
\* containment, and one that matches by containment over one that matches
\* only by the per-character rule, whatever the order of the headers.
C10_StricterMatchWins ==
    mapping.done =>
        \A n \in 1..Len(COLUMN_CANDIDATES) :
            LET key   == COLUMN_CANDIDATES[n].key
                cands == COLUMN_CANDIDATES[n].candidates
                won   == MatchedCandidates(headers, cands)
            IN  (key \in DOMAIN mapping.map /\ won # {}) =>
                    LET c  == cands[CHOOSE i \in won : \A j \in won : i <= j]
                        cl == Trim(ToLowerCase(c))
                        hl(h) == Trim(ToLowerCase(h))
                        chosen == hl(mapping.map[key])
                        exact == \E i \in ValidHeaders(headers) :
                                     ExactMatch(hl(headers[i].v), cl)
                        contains == \E i \in ValidHeaders(headers) :
                                        ContainsMatch(hl(headers[i].v), cl)
                    IN  /\ exact => ExactMatch(chosen, cl)
                        /\ (~exact /\ contains) => ContainsMatch(chosen, cl)

\* C11: every header that detectColumns assigns to a field is an element
\* of the header list that is not null, not empty and not blank; an empty
\* header list gives the empty mapping.
C11_OnlyNonBlankHeaders ==
    mapping.done =>
        /\ \A k \in DOMAIN mapping.map :
               /\ \E i \in 1..Len(headers) :
                      headers[i].t = "string" /\ headers[i].v = mapping.map[k]
               /\ Trim(mapping.map[k]) # <<>>
        /\ headers = <<>> => DOMAIN mapping.map = {}

\* C12: for a header row made of the six primary header names, plain or
\* annotated, in any order, detectColumns maps workDate, contractorName,
\* projectCode, subworkCode, inHours and outHours each to its own header.
C12_PrimaryHeadersResolve ==
    (mapping.done /\ headers \in PrimaryHeaderRows) =>
        \A n \in 1..Len(PrimaryHeaders) :
            LET key == PrimaryHeaders[n].key
            IN  /\ key \in DOMAIN mapping.map
                /\ mapping.map[key] \in {PrimaryHeaders[n].plain,
                                          PrimaryHeaders[n].annotated}

\* a row that starts with the overtime header and ends with the annotated
\* date header was matched
C12_Witness ==
    /\ mapping.done
    /\ headers \in PrimaryHeaderRows
    /\ headers[1].v = PrimaryHeaders[6].plain
    /\ headers[6].v = PrimaryHeaders[1].annotated

---------------------------------------------------------------------------
(* Properties of the aggregations and of the report filter                 *)

\* the display names of the work items of the store
DisplayNames ==
    {WorkTypeName(workItems[i], workCodes) : i \in 1..Len(workItems)}

\* the work items of the store whose own display name is name
RecordsNamed(name) ==
    LET named(item) == WorkTypeName(item, workCodes) = name
    IN  SelectSeq(workItems, named)

\* C13: aggregateByWorkType returns exactly one row for each distinct
\* display name of the records (majorName if not empty, else subworkName if
\* not empty, else the name made of projectCode and subworkCode), and the
\* hours of a row are the sums over exactly the records whose own display
\* name is the name of the row.
C13_OneRowPerDisplayName ==
    report.memo = "aggregateByWorkType" =>
        /\ Len(report.out) = Cardinality(DisplayNames)
        /\ {report.out[i].name : i \in 1..Len(report.out)} = DisplayNames
        /\ \A i \in 1..Len(report.out) :
              /\ report.out[i].kinai
                    = SumField(RecordsNamed(report.out[i].name), "inHours")
              /\ report.out[i].kigai
                    = SumField(RecordsNamed(report.out[i].name), "outHours")
              /\ report.out[i].kei
                    = SumField(RecordsNamed(report.out[i].name), "totalHours")

\* C30: the sums over the rows aggregateByWorkType returns of the regular,
\* the overtime and the total hours equal the sums of inHours, outHours and
\* totalHours over the records it was given, and for an empty list of
\* records it returns no row.
C30_HoursConserved ==
    report.memo = "aggregateByWorkType" =>
        /\ SumField(report.out, "kinai") = SumField(workItems, "inHours")
        /\ SumField(report.out, "kigai") = SumField(workItems, "outHours")
        /\ SumField(report.out, "kei") = SumField(workItems, "totalHours")
        /\ Len(workItems) = 0 => Len(report.out) = 0

\* the same for records none of which has a key that is inherited
C30_ConservedForOwnKeys ==
    (\A i \in 1..Len(workItems) : GroupKey(workItems[i]) \notin InheritedKeys)
        => C30_HoursConserved

\* n in tenths, for a finite number of at most one decimal
Tenths(n) == n.m * Pow10(1 - n.e)

\* the sum in tenths of a field over the work items of the store
RECURSIVE TenthsUpTo(_, _)
TenthsUpTo(field, k) ==
    IF k = 0 THEN 0
    ELSE TenthsUpTo(field, k - 1) + Tenths(workItems[k][field])

\* every work item of the store has finite hours
FiniteHours ==
    \A i \in 1..Len(workItems) :
        workItems[i].inHours.k = "fin" /\ workItems[i].outHours.k = "fin"

\* n >= 0 on numbers
NumNotNegative(n) ==
    \/ n.k = "fin" /\ n.m >= 0
    \/ n.k = "inf" /\ ~n.neg

\* the totals are the sums, and the ratio is 100 * totalOutHours /
\* totalHours rounded to one decimal when totalHours > 0, else 0
C14_SumsAndRounding ==
    (report.memo = "calculateTotals" /\ FiniteHours) =>
        LET sumIn  == TenthsUpTo("inHours", Len(workItems))
            sumOut == TenthsUpTo("outHours", Len(workItems))
            ratio  == report.out.overtimeRatio
        IN  /\ report.out.totalInHours = Fin(sumIn, 1)
            /\ report.out.totalOutHours = Fin(sumOut, 1)
            /\ report.out.totalHours = Fin(sumIn + sumOut, 1)
            /\ ratio.k = "fin" /\ ratio.e <= 1
            /\ IF sumIn + sumOut > 0
               THEN 2 * Abs((Tenths(ratio) * (sumIn + sumOut))
                            - (1000 * sumOut)) <= sumIn + sumOut
               ELSE ratio = Zero

\* for hours that are not negative the ratio lies between 0 and 100
C14_RatioInRange ==
    (/\ report.memo = "calculateTotals"
     /\ \A i \in 1..Len(workItems) :
           /\ NumNotNegative(workItems[i].inHours)
           /\ NumNotNegative(workItems[i].outHours))
    => /\ report.out.overtimeRatio.k = "fin"
       /\ Tenths(report.out.overtimeRatio) >= 0
       /\ Tenths(report.out.overtimeRatio) <= 1000

\* C14: calculateTotals returns the sums of inHours and of outHours, their
\* sum as totalHours, and as overtimeRatio 100 * totalOutHours / totalHours
\* rounded to one decimal when totalHours > 0 and 0 otherwise; for hours
\* that are not negative the ratio lies between 0 and 100.
C14_TotalsAndRatio == C14_SumsAndRounding /\ C14_RatioInRange

\* a date string as a number of days: year, month and day of YYYY-MM-DD,
\* the empty string before every date
DayNumber(s) ==
    IF s = <<>> THEN 0
    ELSE LET d(i) == s[i] - 48
         IN  (((d(1) * 1000) + (d(2) * 100) + (d(3) * 10) + d(4)) * 372)
             + (((d(6) * 10) + d(7)) * 31) + (d(9) * 10) + d(10)

\* the report filter retains the work item
Retained(item) ==
    /\ filters.project # <<>> => Includes(item.projectCode, filters.project)
    /\ filters.contractor # <<>>
          => Includes(item.contractorName, filters.contractor)
    /\ filters.fromDate # <<>>
          => DayNumber(filters.fromDate) <= DayNumber(item.workDate)
    /\ filters.toDate # <<>>
          => DayNumber(item.workDate) <= DayNumber(filters.toDate)

\* C15: the report filter retains a record exactly when its projectCode
\* contains the project filter (if set), its contractorName contains the
\* contractor filter (if set) and its workDate lies between the from and to
\* bounds that are set, both bounds included; the records it retains keep
\* the order they have in the store.
C15_FilterRetainsExactly ==
    report.memo = "filteredData" =>
        /\ \A i \in 1..Len(workItems) :
              Retained(workItems[i])
                <=> \E j \in 1..Len(report.out) : report.out[j] = workItems[i]
        /\ \A j \in 1..Len(report.out) :
              \E i \in 1..Len(workItems) : report.out[j] = workItems[i]
        /\ \A j, k \in 1..Len(report.out) :
              j < k => \E a, b \in 1..Len(workItems) :
                          /\ a < b
                          /\ workItems[a] = report.out[j]
                          /\ workItems[b] = report.out[k]

\* a record dated on the from bound is retained, one after the to bound is
\* not
C15_Witness ==
    /\ report.memo = "filteredData"
    /\ filters.fromDate = Txt("2025-01-15")
    /\ filters.toDate = Txt("2025-01-16")
    /\ Len(workItems) = 3 /\ Len(report.out) = 2
    /\ report.out[2].workDate = Txt("2025-01-15")
    /\ report.out[1].workDate = Txt("2025-01-16")

---------------------------------------------------------------------------
(* Properties of the views of the Reports page                             *)

\* the records of the store the filter retains, in store order
FilteredRecords == SelectSeq(workItems, Retained)

\* the indexes of the characters of s that are c
IndexesOf(s, c) == {i \in 1..Len(s) : s[i] = c}

\* the number of comma-separated fields of line k (from 0) of a text
FieldsOfLine(s, k) ==
    Cardinality({i \in IndexesOf(s, 44) :
                    Cardinality({j \in IndexesOf(s, 10) : j < i}) = k}) + 1

\* C22: the CSV export of a list of report rows that is not empty is one
\* header line of the field names and exactly one line for each report
\* row, and every line has as many comma-separated fields as the header
\* line, for all project codes and category names of report rows.
C22_CsvLinesMatchHeader ==
    (report.memo = "handleExportCSV" /\ report.exported) =>
        /\ Cardinality(IndexesOf(report.out, 10)) = Len(report.rows)
        /\ FieldsOfLine(report.out, 0) = Len(ReportFieldNames)
        /\ \A k \in 1..Len(report.rows) :
              FieldsOfLine(report.out, k) = FieldsOfLine(report.out, 0)

\* n in hundredths, for a finite number of at most two decimals
Hundredths(n) == n.m * Pow10(2 - n.e)

\* shown is sum rounded to one decimal: the sum itself when it is not
\* finite, else a number of one decimal at most 0.05 from it
IsRoundedSum(shown, records, field) ==
    LET sum == SumField(records, field)
    IN  IF sum.k # "fin" THEN shown = sum
        ELSE /\ shown.k = "fin" /\ shown.e <= 1
             /\ Abs(Hundredths(shown) - Hundredths(sum)) <= 5

\* the filtered records of a date
RecordsOfDate(date) ==
    LET ofDate(item) == item.workDate = date
    IN  SelectSeq(FilteredRecords, ofDate)

\* C25: the time-series view has exactly one row for each distinct
\* workDate of the filtered records, with the sums of inHours, outHours and
\* totalHours of the records of that date, each rounded to one decimal, and
\* its rows are in strictly ascending order of the date string.
C25_SeriesPerDateAscending ==
    report.memo = "timeSeriesData" =>
        /\ Len(report.out)
             = Cardinality({FilteredRecords[i].workDate :
                               i \in 1..Len(FilteredRecords)})
        /\ {report.out[i].date : i \in 1..Len(report.out)}
             = {FilteredRecords[i].workDate : i \in 1..Len(FilteredRecords)}
        /\ \A i \in 1..Len(report.out) :
              LET recs == RecordsOfDate(report.out[i].date)
              IN  /\ IsRoundedSum(report.out[i].kinai, recs, "inHours")
                  /\ IsRoundedSum(report.out[i].kigai, recs, "outHours")
                  /\ IsRoundedSum(report.out[i].kei, recs, "totalHours")
        /\ \A j, k \in 1..Len(report.out) :
              j < k => StrLess(report.out[j].date, report.out[k].date)

\* two filtered records of different dates, stored with the later date
\* first, are shown with the earlier date first
C25_Witness ==
    /\ report.memo = "timeSeriesData"
    /\ Len(FilteredRecords) = 2 /\ Len(report.out) = 2
    /\ StrLess(FilteredRecords[2].workDate, FilteredRecords[1].workDate)
    /\ report.out[1].date = FilteredRecords[2].workDate

\* the (projectCode, subworkCode) pairs of the filtered records
FilteredPairs ==
    {<<FilteredRecords[i].projectCode, FilteredRecords[i].subworkCode>> :
        i \in 1..Len(FilteredRecords)}

\* the filtered records of a pair
RecordsOfPair(pair) ==
    LET ofPair(item) ==
            item.projectCode = pair[1] /\ item.subworkCode = pair[2]
    IN  SelectSeq(FilteredRecords, ofPair)

\* shown is overtime / total of the records rounded to three decimals, 0
\* when the total is not positive; nothing is said of hours that are not
\* finite
IsRoundedFraction(shown, records) ==
    LET out   == SumField(records, "outHours")
        total == SumField(records, "totalHours")
    IN  (out.k = "fin" /\ total.k = "fin") =>
            /\ shown.k = "fin" /\ shown.e <= 3
            /\ IF Hundredths(total) > 0
               THEN 2 * Abs((shown.m * Pow10(3 - shown.e) * Hundredths(total))
                            - (1000 * Hundredths(out))) <= Hundredths(total)
               ELSE shown = Zero

\* C26: the report rows are exactly one row for each distinct
\* (projectCode, subworkCode) pair of the filtered records, each with the
\* overtime fraction overtime / total rounded to three decimals (0 when the
\* total is not positive), ordered by total hours that do not increase.
C26_RowPerPairDescending ==
    report.memo = "reportData" =>
        /\ Len(report.out) = Cardinality(FilteredPairs)
        /\ \A pair \in FilteredPairs :
              \E i \in 1..Len(report.out) :
                  /\ report.out[i].kouji = pair[1]
                  /\ IsRoundedSum(report.out[i].kinai, RecordsOfPair(pair),
                                  "inHours")
                  /\ IsRoundedSum(report.out[i].kigai, RecordsOfPair(pair),
                                  "outHours")
                  /\ IsRoundedSum(report.out[i].kei, RecordsOfPair(pair),
                                  "totalHours")
                  /\ IsRoundedFraction(report.out[i].kigaiHiritsu,
                                       RecordsOfPair(pair))
        /\ \A j, k \in 1..Len(report.out) :
              j < k => ~NumLess(report.out[j].kei, report.out[k].kei)

---------------------------------------------------------------------------
(* Properties of the ingestion of a workbook                               *)

\* the read of the file failed, or the workbook has no sheet of the name of
\* the daily data sheet
NoDataSheet ==
    \/ workbook.read # "ok"
    \/ SheetNamed(workbook.sheets, DailySheetName) = 0

\* C16: when the file read fails or the workbook has no usable data sheet,
\* parseExcelFile rejects with one error object that carries a code
\* (FILE_READ_ERROR or EXCEL_PARSE_ERROR) and a message and never resolves
\* with records, and the import adds nothing to the store of records and
\* taxonomy and shows no import result.
C16_StructuralFailureAborts ==
    NoDataSheet =>
        /\ settled # NoSettle =>
              /\ settled.ok = FALSE
              /\ settled.error.code \in {"FILE_READ_ERROR", "EXCEL_PARSE_ERROR"}
              /\ "message" \in DOMAIN settled.error
        /\ workItems = <<>> /\ workCodes = <<>>
        /\ importResult = Null

\* the rows under the first row of a sheet
RowsBelowHeader(sheet) == RowsFrom(sheet.rows, 1)

\* the workbook has a daily sheet and a code sheet, each with its header
\* row as first row and only non-empty rows below it
HeaderFirstWorkbook ==
    /\ workbook.read = "ok" /\ Len(workbook.sheets) = 2
    /\ workbook.sheets[1].name = DailySheetName
    /\ workbook.sheets[2].name = CodesSheetName
    /\ workbook.sheets[1].rows[1] = TemplateHeaderRow
    /\ workbook.sheets[2].rows[1] = CodeHeaderRow
    /\ \A s \in 1..2 :
          \A i \in 1..Len(RowsBelowHeader(workbook.sheets[s])) :
              IsDataRow(RowsBelowHeader(workbook.sheets[s])[i])

\* C17: for a workbook whose data sheet has the header row as first row
\* and N non-empty rows below it, and whose code sheet has the header row
\* as first row and M non-empty rows below it, parseExcelFile resolves with
\* N work items, M work codes and a column mapping.
C17_HeaderFirstRowParses ==
    (HeaderFirstWorkbook /\ settled # NoSettle) =>
        /\ settled.ok = TRUE
        /\ Len(settled.workItems)
             = Len(RowsBelowHeader(workbook.sheets[1]))
        /\ Len(settled.workCodes)
             = Len(RowsBelowHeader(workbook.sheets[2]))
        /\ "columnMapping" \in DOMAIN settled

\* the undefined records of the import that ran: the unique records whose
\* subworkCode is not in the taxonomy of the file
UndefinedRecords == UndefinedCodeItems(run.uniqueItems, pageWorkCodes)

\* the earliest workDate of the undefined records of a code
FirstSeen(code) ==
    LET dates == {UndefinedRecords[i].workDate :
                     i \in {j \in 1..Len(UndefinedRecords) :
                               UndefinedRecords[j].subworkCode = code}}
    IN  CHOOSE d \in dates : \A e \in dates : d = e \/ StrLess(d, e)

\* the import result counts every undefined record once
C18_CountsEveryUndefinedRecord ==
    (run # NoRun /\ importResult # Null) =>
        importResult.undefinedCodes = Len(UndefinedRecords)

\* C18: the detection of undefined codes yields, for each subworkCode of a
\* unique record that is absent from the taxonomy, one entry whose count is
\* the number of such records and whose firstSeen is the earliest workDate
\* among them; the undefinedCodes figure of the import result counts every
\* such record once.
C18_UndefinedCodesGrouped ==
    (run # NoRun /\ importResult # Null) =>
        /\ \A r \in 1..Len(UndefinedRecords) :
              LET code == UndefinedRecords[r].subworkCode
                  hits == {e \in 1..Len(CodesPageUndefinedCodes) :
                              CodesPageUndefinedCodes[e].subworkCode = code}
              IN  /\ Cardinality(hits) = 1
                  /\ \A e \in hits :
                        /\ CodesPageUndefinedCodes[e].count
                             = Cardinality(
                                   {j \in 1..Len(UndefinedRecords) :
                                       UndefinedRecords[j].subworkCode = code})
                        /\ CodesPageUndefinedCodes[e].firstSeen
                             = FirstSeen(code)
        /\ importResult.undefinedCodes = Len(UndefinedRecords)

\* C19: after any sequence of imports the taxonomy of the store never holds
\* two entries of one subworkCode, also when a code sheet lists a code on
\* several rows.
C19_TaxonomyCodesUnique ==
    \A i, j \in 1..Len(workCodes) :
        workCodes[i].subworkCode = workCodes[j].subworkCode => i = j

\* C20: every record parseExcelFile builds has inHours >= 0 and
\* outHours >= 0, whatever the cells of its row hold.
C20_HoursNotNegative ==
    (settled # NoSettle /\ settled.ok = TRUE) =>
        \A i \in 1..Len(settled.workItems) :
            /\ NumNotNegative(settled.workItems[i].inHours)
            /\ NumNotNegative(settled.workItems[i].outHours)

\* the sheet parseExcelFile takes as the daily sheet of the workbook
DailyOfWorkbook ==
    LET named == SheetNamed(workbook.sheets, DailySheetName)
    IN  workbook.sheets[IF named # 0 THEN named ELSE 1]

\* the rows below row index 4 of the daily sheet that hold a cell that is
\* not null, undefined or the empty string, in row order
NonEmptyRows ==
    LET below == SubSeq(DailyOfWorkbook.rows, 6, Len(DailyOfWorkbook.rows))
        nonEmpty(row) ==
            \E i \in 1..Len(row) :
                /\ row[i] # Null /\ row[i] # Undefined /\ row[i] # Str(<<>>)
    IN  SelectSeq(below, nonEmpty)

\* parseExcelFile settled for a workbook that was read and has a sheet
ParsedWorkbook ==
    /\ settled # NoSettle
    /\ workbook.read = "ok" /\ Len(workbook.sheets) > 0

\* the total hours of the records built of rows with finite hours are
\* max(0, inHours + outHours)
C21_TotalOfFiniteHours ==
    (settled # NoSettle /\ settled.ok = TRUE) =>
        \A i \in 1..Len(settled.workItems) :
            LET item == settled.workItems[i]
            IN  (item.inHours.k = "fin" /\ item.outHours.k = "fin") =>
                    LET sum == Tenths(item.inHours) + Tenths(item.outHours)
                    IN  item.totalHours = Fin(IF sum > 0 THEN sum ELSE 0, 1)

\* C21: every record parseExcelFile builds has totalHours equal to
\* max(0, inHours + outHours), and so totalHours >= 0, whatever the total
\* column of the sheet holds.
C21_TotalIsClampedSum ==
    /\ C21_TotalOfFiniteHours
    /\ (settled # NoSettle /\ settled.ok = TRUE) =>
          \A i \in 1..Len(settled.workItems) :
              NumNotNegative(settled.workItems[i].totalHours)

\* the cell of a row at the fixed position of a field
CellAtPosition(row, key) ==
    IF PositionalFields[key] < Len(row)
    THEN row[PositionalFields[key] + 1] ELSE Undefined

\* the mapping names, for every field, the header at the fixed position
C23_MappingByPosition ==
    (ParsedWorkbook /\ settled.ok = TRUE) =>
        LET hdr == IF Len(DailyOfWorkbook.rows) >= 5
                   THEN DailyOfWorkbook.rows[5] ELSE <<>>
        IN  \A key \in DOMAIN settled.columnMapping :
                /\ key \in DOMAIN PositionalFields
                /\ PositionalFields[key] < Len(hdr)
                /\ settled.columnMapping[key]
                     = Trim(JsString(hdr[PositionalFields[key] + 1]))

\* C23: parseExcelFile takes row index 4 of the data sheet as the header
\* row and maps the fields by fixed column position without synonym
\* matching, and the value of each mapped field of a record is read from
\* that column position of its row, also when two columns carry the same
\* header text.
C23_ValuesByPosition ==
    /\ C23_MappingByPosition
    /\ (ParsedWorkbook /\ settled.ok = TRUE) =>
          \A i \in 1..Len(settled.workItems) :
              \A key \in DOMAIN settled.columnMapping :
                  LET raw  == CellAtPosition(NonEmptyRows[i], key)
                      have == settled.workItems[i][key]
                  IN  IF key \in {"inHours", "outHours", "headcount"}
                      THEN have = parseNumber(raw).v
                      ELSE IF key \in {"workDate", "totalHours"} THEN TRUE
                      ELSE have = parseString(raw).v

\* C24: parseExcelFile returns exactly one work record for each data row (a
\* row below the header row) that holds a cell that is not null, undefined
\* or the empty string, in row order; a row of empty cells gives no record
\* and no error.
C24_OneRecordPerNonEmptyRow ==
    ParsedWorkbook =>
        /\ settled.ok = TRUE
        /\ Len(settled.workItems) = Len(NonEmptyRows)
        /\ \A i \in 1..Len(settled.workItems) :
              /\ settled.workItems[i].id = Txt("work_") \o NatToStr(i - 1)
              /\ "subworkCode" \in DOMAIN settled.columnMapping =>
                    settled.workItems[i].subworkCode
                      = parseString(CellAtPosition(NonEmptyRows[i],
                                                   "subworkCode")).v

\* when parseExcelFile resolves, the records are those of the non-empty
\* rows
C24_RecordsWhenResolved ==
    (ParsedWorkbook /\ settled.ok = TRUE) =>
        Len(settled.workItems) = Len(NonEmptyRows)

---------------------------------------------------------------------------
(* Properties of the coercers                                              *)

\* C5: parseDate never throws: for every raw cell value it returns a date
\* string or null, bare numeric strings of any length included.
C5_ParseDateNeverThrows ==
    op = "parseDate" => res.t \in {"string", "null"}

\* C6: a date string d that parseDate returned is a fixed point of
\* parseDate: parseDate(d) = d.
C6_ParseDateIdempotent ==
    (fed /\ op = "parseDate") => res = cell

\* StrDecimalLiteral with an optional sign, stated on the whole text:
\* Infinity, digits, digits '.' digits-opt, or '.' digits
IsLiteralBody(b) ==
    \/ b = Txt("Infinity")
    \/ \E k \in 0..Len(b) :
          /\ AllDigits(SubSeq(b, 1, k))
          /\ \/ k = Len(b) /\ k >= 1
             \/ /\ k < Len(b)
                /\ b[k + 1] = 46
                /\ AllDigits(SubSeq(b, k + 2, Len(b)))
                /\ Len(b) >= 2

Unsigned(p) == IF Len(p) > 0 /\ p[1] \in {43, 45} THEN Tail(p) ELSE p

IsDecimalLiteral(p) == IsLiteralBody(Unsigned(p))

\* the mathematical value of a decimal literal
LiteralValue(p) ==
    LET b    == Unsigned(p)
        neg  == Len(p) > 0 /\ p[1] = 45
        dots == {i \in 1..Len(b) : b[i] = 46}
        ip   == IF dots = {} THEN b ELSE SubSeq(b, 1, (CHOOSE i \in dots : TRUE) - 1)
        fp   == IF dots = {} THEN <<>>
                ELSE SubSeq(b, (CHOOSE i \in dots : TRUE) + 1, Len(b))
        mag  == DigitsVal(ip \o fp)
    IN  IF b = Txt("Infinity") THEN Infinity(neg)
        ELSE Fin(IF neg THEN -mag ELSE mag, Len(fp))

LiteralPrefixes(t) == {k \in 1..Len(t) : IsDecimalLiteral(SubSeq(t, 1, k))}

SetMax(S) == CHOOSE x \in S : \A y \in S : y <= x

C8_ParseStringKeepsValues ==
    op = "parseString" =>
        res = Str(IF IsEmptyCell(cell) THEN <<>> ELSE Trim(JsString(cell)))

===========================================================================
